---- MODULE Spec2Model ----
(***************************************************************************)
(* A model of gvrtex: the GVR texture container codec.                     *)
(*                                                                         *)
(*   SpecEncoder  the TextureEncoder: its four constructors, the two       *)
(*                builders and encode() (input validation, header).        *)
(*   SpecDecoder  the TextureDecoder: decode() over a byte cursor, and the *)
(*                image accessors.                                         *)
(*   SpecIter, SpecPixel, SpecBc1, SpecPalette, SpecNibble, SpecMipmaps    *)
(*                the iterators and the pixel codec functions, each        *)
(*                applied to inputs drawn from a bounded set.              *)
(***************************************************************************)
EXTENDS Integers, Sequences, FiniteSets, TLC

VARIABLES
    enc,        \* the TextureEncoder value in hand, or NoEncoder
    eres,       \* what the last encoder call returned
    ecall,      \* the last encoder call and its arguments
    out,        \* the byte vector the last encode() returned
    file,       \* TextureDecoder.cursor: the bytes of the file
    pos,        \* TextureDecoder.cursor: its position
    image,      \* TextureDecoder.image: NoImage or the decoded image
    dres,       \* what the last decode() call returned
    dhist,      \* what every decode() call so far returned, oldest first
    ares,       \* what the last image accessor call returned
    alive,      \* the decoder can still be called (not consumed, not aborted)
    build,      \* the build profile: are integer overflow checks compiled in
    cin,        \* the arguments of a call of a codec function or an iterator
    cout        \* what that call returned, once it has been made

vars == <<enc, eres, ecall, out, file, pos, image, dres, dhist, ares, alive, build,
          cin, cout>>

encVars == <<enc, eres, ecall, out>>
decVars == <<file, pos, image, dres, dhist, ares, alive, build>>
codecVars == <<cin, cout>>

\* no codec function has been called
NotCalled == [done |-> FALSE]

CodecIdle == cin = NotCalled /\ cout = NotCalled

(***************************************************************************)
(* Bytes and fixed-width integers                                          *)
(***************************************************************************)
\* bit b (a power of two) of v is set
HasBit(v, b) == (v \div b) % 2 = 1

\* v | b, for a single bit b
SetBit(v, b) == IF HasBit(v, b) THEN v ELSE v + b

\* byteorder: write_u32::<LittleEndian>
LE32(n) == <<n % 256, (n \div 256) % 256, (n \div 65536) % 256, (n \div 16777216) % 256>>

\* byteorder: write_u32::<BigEndian>
BE32(n) == <<(n \div 16777216) % 256, (n \div 65536) % 256, (n \div 256) % 256, n % 256>>

\* byteorder: write_u16::<BigEndian>
BE16(n) == <<(n \div 256) % 256, n % 256>>

\* the ASCII magic strings
GCIX == <<71, 67, 73, 88>>
GBIX == <<71, 66, 73, 88>>
GVRT == <<71, 86, 82, 84>>

\* a run of n zero bytes
Zeros(n) == [i \in 1..n |-> 0]

(***************************************************************************)
(* formats.rs                                                              *)
(***************************************************************************)
DataFormats ==
    {"Intensity4", "Intensity8", "IntensityA4", "IntensityA8", "Rgb565",
     "Rgb5a3", "Argb8888", "Index4", "Index8", "Dxt1"}

PixelFormats == {"IntensityA8", "RGB565", "RGB5A3"}

TextureTypes == {"Gcix", "Gbix"}

\* impl From<DataFormat> for u8
DataFormatCode(d) ==
    CASE d = "Intensity4" -> 0
      [] d = "Intensity8" -> 1
      [] d = "IntensityA4" -> 2
      [] d = "IntensityA8" -> 3
      [] d = "Rgb565" -> 4
      [] d = "Rgb5a3" -> 5
      [] d = "Argb8888" -> 6
      [] d = "Index4" -> 8
      [] d = "Index8" -> 9
      [] d = "Dxt1" -> 14

\* impl From<PixelFormat> for u8
PixelFormatCode(p) ==
    CASE p = "IntensityA8" -> 0
      [] p = "RGB565" -> 1
      [] p = "RGB5A3" -> 2

\* DataFlags
FlagNone == 0
FlagMipmaps == 1
FlagExternalPalette == 2
FlagInternalPalette == 8

\* DataFlags::intersects
Intersects(flags, bit) == HasBit(flags, bit)

(***************************************************************************)
(* TextureEncoder                                                          *)
(***************************************************************************)
NoEncoder == [some |-> FALSE, texture_type |-> "Gcix", pixel_format |-> "IntensityA8",
              data_format |-> "Rgb5a3", data_flags |-> 0, global_index |-> 0]

\* #[derive(Default)] TextureEncoder
DefaultEncoder == [some |-> TRUE, texture_type |-> "Gcix", pixel_format |-> "IntensityA8",
                   data_format |-> "Rgb5a3", data_flags |-> FlagNone, global_index |-> 0]

ROk == <<"Ok">>
RNone == <<"none">>

NoCall == [op |-> "none", d |-> "Rgb5a3", p |-> "IntensityA8", g |-> 0,
           w |-> 0, h |-> 0, bx |-> 0, by |-> 0, encoded |-> <<>>, ext |-> "ok",
           validated |-> RNone, self |-> NoEncoder]

check_given_formats_swapped(data_format) ==
    IF data_format \in {"Index4", "Index8"} THEN ROk ELSE <<"Format">>

check_given_formats(data_format) ==
    IF data_format \in {"Index4", "Index8"} THEN <<"Format">> ELSE ROk

check_given_formats_palettized_lax(data_format) ==
    IF data_format \in {"Index4", "Index8", "Intensity4"} THEN ROk ELSE <<"Format">>

check_given_formats_palettized(data_format) ==
    IF data_format \in {"Index4", "Index8"} THEN ROk ELSE <<"Format">>

new_gcix_palettized(pixel_format, data_format) ==
    /\ ecall' = [NoCall EXCEPT !.op = "new_gcix_palettized", !.p = pixel_format,
                               !.d = data_format]
    /\ eres' = check_given_formats_palettized(data_format)
    /\ enc' = IF check_given_formats_palettized(data_format) # ROk THEN NoEncoder
              ELSE [DefaultEncoder EXCEPT !.texture_type = "Gcix",
                                          !.pixel_format = pixel_format,
                                          !.data_format = data_format,
                                          !.data_flags = FlagInternalPalette]
    /\ out' = <<>>
    /\ UNCHANGED decVars
    /\ UNCHANGED codecVars

new_gcix(data_format) ==
    /\ ecall' = [NoCall EXCEPT !.op = "new_gcix", !.d = data_format]
    /\ eres' = check_given_formats(data_format)
    /\ enc' = IF check_given_formats(data_format) # ROk THEN NoEncoder
              ELSE [DefaultEncoder EXCEPT !.texture_type = "Gcix",
                                          !.data_format = data_format]
    /\ out' = <<>>
    /\ UNCHANGED decVars
    /\ UNCHANGED codecVars

new_gbix_palettized(pixel_format, data_format) ==
    /\ ecall' = [NoCall EXCEPT !.op = "new_gbix_palettized", !.p = pixel_format,
                               !.d = data_format]
    /\ eres' = check_given_formats_palettized(data_format)
    /\ enc' = IF check_given_formats_palettized(data_format) # ROk THEN NoEncoder
              ELSE [DefaultEncoder EXCEPT !.texture_type = "Gbix",
                                          !.pixel_format = pixel_format,
                                          !.data_format = data_format,
                                          !.data_flags = FlagInternalPalette]
    /\ out' = <<>>
    /\ UNCHANGED decVars
    /\ UNCHANGED codecVars

new_gbix(data_format) ==
    /\ ecall' = [NoCall EXCEPT !.op = "new_gbix", !.d = data_format]
    /\ eres' = check_given_formats(data_format)
    /\ enc' = IF check_given_formats(data_format) # ROk THEN NoEncoder
              ELSE [DefaultEncoder EXCEPT !.texture_type = "Gbix",
                                          !.data_format = data_format]
    /\ out' = <<>>
    /\ UNCHANGED decVars
    /\ UNCHANGED codecVars

MipmapFormats_all == DataFormats

\* the data formats with_mipmaps accepts
MipmapFormats == {"Dxt1", "Rgb565", "Rgb5a3"}

\* with_mipmaps(mut self): self is consumed, and dropped on the error path
with_mipmaps ==
    /\ enc.some
    /\ ecall' = [NoCall EXCEPT !.op = "with_mipmaps", !.self = enc]
    /\ IF enc.data_format \in MipmapFormats
       THEN /\ enc' = [enc EXCEPT !.data_flags = SetBit(enc.data_flags, FlagMipmaps)]
            /\ eres' = ROk
       ELSE /\ enc' = NoEncoder
            /\ eres' = <<"Mipmap">>
    /\ out' = <<>>
    /\ UNCHANGED decVars
    /\ UNCHANGED codecVars

with_global_index(global_index) ==
    /\ enc.some
    /\ ecall' = [NoCall EXCEPT !.op = "with_global_index", !.g = global_index, !.self = enc]
    /\ enc' = [enc EXCEPT !.global_index = global_index]
    /\ eres' = ROk
    /\ out' = <<>>
    /\ UNCHANGED decVars
    /\ UNCHANGED codecVars

(***************************************************************************)
(* codec.rs: GvrEncoderBase::validate_input, for an encoder whose          *)
(* get_block_size() is (x_block_size, y_block_size)                        *)
(***************************************************************************)
Max(a, b) == IF a >= b THEN a ELSE b

validate_input_min_block(x_block_size, y_block_size, width, height) ==
    LET smallest_block == IF x_block_size <= y_block_size THEN x_block_size
                          ELSE y_block_size
    IN  IF width < x_block_size \/ height < y_block_size
        THEN <<"SmallDimensions", width, height, x_block_size, y_block_size>>
        ELSE IF width % smallest_block # 0 \/ height % smallest_block # 0
             THEN <<"InvalidDimensions", width, height, smallest_block>>
             ELSE ROk

validate_input(x_block_size, y_block_size, width, height) ==
    LET biggest_block == Max(x_block_size, y_block_size)
    IN  IF width < x_block_size \/ height < y_block_size
        THEN <<"SmallDimensions", width, height, x_block_size, y_block_size>>
        ELSE IF width % biggest_block # 0 \/ height % biggest_block # 0
             THEN <<"InvalidDimensions", width, height, biggest_block>>
             ELSE ROk

\* the block sizes the encoders declare
BlockSizes == {<<4, 4>>, <<8, 4>>, <<8, 8>>}

(***************************************************************************)
(* TextureEncoder::write_header: the bytes pushed onto an empty buffer, or *)
(* a panic when a try_into().unwrap() does not fit                         *)
(***************************************************************************)
HeaderPanic == [panic |-> TRUE, buf |-> <<>>]

write_header_native_endian(self, width, height, encoded_len) ==
    IF (encoded_len + 8) \div 65536 > 65535 \/ width > 65535 \/ height > 65535
    THEN HeaderPanic
    ELSE [panic |-> FALSE,
          buf |-> (IF self.texture_type = "Gcix" THEN GCIX ELSE GBIX)
                  \o LE32(8)
                  \o LE32(self.global_index)
                  \o Zeros(4)
                  \o GVRT
                  \o LE32(encoded_len + 8)
                  \o Zeros(2)
                  \o << ((PixelFormatCode(self.pixel_format) * 16) % 256)
                         + self.data_flags >>
                  \o << DataFormatCode(self.data_format) >>
                  \o BE16(width)
                  \o BE16(height)]

write_header(self, width, height, encoded_len) ==
    IF (encoded_len + 8) \div 65536 > 65535 \/ width > 65535 \/ height > 65535
    THEN HeaderPanic
    ELSE LET magic == IF self.texture_type = "Gcix" THEN GCIX ELSE GBIX
             head == magic \o LE32(8) \o BE32(self.global_index)
             \* buf.resize(0x10, 0)
             padded == head \o Zeros(16 - Len(head))
             pixel_format == (PixelFormatCode(self.pixel_format) * 16) % 256
             \* pixel_format | data_flags: the two occupy different nibbles
             flags == pixel_format + (self.data_flags % 16)
         IN  [panic |-> FALSE,
              buf |-> padded
                      \o GVRT
                      \o LE32(encoded_len + 8)
                      \o Zeros(2)
                      \o <<flags>>
                      \o << DataFormatCode(self.data_format) >>
                      \o BE16(width)
                      \o BE16(height)]

(***************************************************************************)
(* TextureEncoder::encode.  The image file, the block size of the encoder  *)
(* the data format selects and the pixel payload that encoder produces     *)
(* (with any mipmap levels appended) are inputs.                           *)
(***************************************************************************)
MaxPayload == 2

\* a payload of n bytes
Payload(n) == [i \in 1..n |-> (i * 37 + 11) % 256]

\* the payloads handed to write_header: 32, 248, ... bytes
EncodedPayloads == {Payload(32 + 216 * k) : k \in 0..(MaxPayload - 1)}

\* the (width, height) of the images read
ImageSizes ==
    {<<3, 3>>, <<3, 8>>, <<8, 3>>, <<6, 8>>, <<4, 4>>, <<8, 4>>, <<8, 8>>,
     <<12, 8>>, <<300, 8>>, <<8, 65536>>}

GlobalIndices == {0, 16909060}

\* what the collaborators do: the image file loads or not, imagequant fails or not
Externals == {"ok", "load_fails", "quantize_fails"}

encode(ext, bs, width, height, encoded) ==
    /\ enc.some
    /\ ecall' = [NoCall EXCEPT !.op = "encode", !.w = width, !.h = height,
                               !.bx = bs[1], !.by = bs[2], !.encoded = encoded,
                               !.ext = ext, !.self = enc,
                               !.validated = IF ext = "load_fails" THEN RNone
                                             ELSE validate_input(bs[1], bs[2],
                                                                 width, height)]
    /\ enc' = enc
    /\ LET valid == validate_input(bs[1], bs[2], width, height)
           header == write_header(enc, width, height, Len(encoded))
       IN  IF ext = "load_fails"
           THEN eres' = <<"Encode">> /\ out' = <<>>
           ELSE IF valid # ROk
           THEN eres' = valid /\ out' = <<>>
           ELSE IF Intersects(enc.data_flags, FlagInternalPalette)
                   /\ ext = "quantize_fails"
           THEN eres' = <<"Palette">> /\ out' = <<>>
           ELSE IF header.panic
           THEN eres' = <<"Panic">> /\ out' = <<>>
           ELSE eres' = ROk /\ out' = header.buf \o encoded
    /\ UNCHANGED decVars
    /\ UNCHANGED codecVars

NoImage == [some |-> FALSE, width |-> 0, height |-> 0, pixels |-> <<>>]

\* what the build decides: whether integer overflow is checked (debug) or
\* wraps (release), and where the standard library leaves a cursor after a
\* read_exact that ran out of data
Builds == [overflow_checks : BOOLEAN, read_exact_seeks_end : BOOLEAN]

DecoderIdle ==
    /\ file = <<>>
    /\ pos = 0
    /\ image = NoImage
    /\ dres = "none"
    /\ dhist = <<>>
    /\ ares = "none"
    /\ alive = FALSE
    /\ build = [overflow_checks |-> TRUE, read_exact_seeks_end |-> TRUE]

InitEncoder ==
    /\ enc = NoEncoder
    /\ eres = RNone
    /\ ecall = NoCall
    /\ out = <<>>
    /\ DecoderIdle
    /\ CodecIdle

NextEncoder ==
    \/ \E d \in DataFormats : new_gcix(d)
    \/ \E d \in DataFormats : new_gbix(d)
    \/ \E p \in PixelFormats, d \in DataFormats : new_gcix_palettized(p, d)
    \/ \E p \in PixelFormats, d \in DataFormats : new_gbix_palettized(p, d)
    \/ with_mipmaps
    \/ \E g \in GlobalIndices : with_global_index(g)
    \/ \E ext \in Externals, bs \in BlockSizes, wh \in ImageSizes,
          e \in EncodedPayloads :
            encode(ext, bs, wh[1], wh[2], e)

SpecEncoder == InitEncoder /\ [][NextEncoder]_vars

(***************************************************************************)
(* iter.rs: the pixel block iterators                                      *)
(***************************************************************************)
NewPixelBlockIterator(width, height, x_block_size, y_block_size) ==
    [width |-> width, height |-> height,
     x_block_size |-> x_block_size, y_block_size |-> y_block_size,
     x_block |-> 0, y_block |-> 0, x |-> 0, y |-> 0, blocks |-> 0]

impl_pixelblockiterator_transposed(iter) ==
    IF iter.y_block >= iter.height
    THEN [some |-> FALSE, iter |-> iter, blocks |-> 0, col |-> 0, x |-> 0, y |-> 0]
    ELSE LET point == [some |-> TRUE, blocks |-> iter.blocks, col |-> iter.x,
                       x |-> iter.x_block + iter.y, y |-> iter.y_block + iter.x]
             Ret(it) == [some |-> TRUE, iter |-> it, blocks |-> point.blocks,
                         col |-> point.col, x |-> point.x, y |-> point.y]
         IN  IF iter.x + 1 # iter.x_block_size
             THEN Ret([iter EXCEPT !.x = iter.x + 1])
             ELSE IF iter.y + 1 # iter.y_block_size
             THEN Ret([iter EXCEPT !.x = 0, !.y = iter.y + 1])
             ELSE IF iter.x_block + iter.x_block_size >= iter.width
             THEN Ret([iter EXCEPT !.x = 0, !.y = 0, !.blocks = iter.blocks + 1,
                                   !.x_block = 0,
                                   !.y_block = iter.y_block + iter.y_block_size])
             ELSE Ret([iter EXCEPT !.x = 0, !.y = 0, !.blocks = iter.blocks + 1,
                                   !.x_block = iter.x_block + iter.x_block_size])

\* macro impl_pixelblockiterator: one call of next().  `blocks` is the counter
\* PixelBlockIteratorExt adds in $each_block; PixelBlockIterator ignores it.
impl_pixelblockiterator(iter) ==
    IF iter.y_block >= iter.height
    THEN [some |-> FALSE, iter |-> iter, blocks |-> 0, col |-> 0, x |-> 0, y |-> 0]
    ELSE LET point == [some |-> TRUE, blocks |-> iter.blocks, col |-> iter.x,
                       x |-> iter.x_block + iter.x, y |-> iter.y_block + iter.y]
             Ret(it) == [some |-> TRUE, iter |-> it, blocks |-> point.blocks,
                         col |-> point.col, x |-> point.x, y |-> point.y]
         IN  IF iter.x + 1 # iter.x_block_size
             THEN Ret([iter EXCEPT !.x = iter.x + 1])
             ELSE IF iter.y + 1 # iter.y_block_size
             THEN Ret([iter EXCEPT !.x = 0, !.y = iter.y + 1])
             ELSE IF iter.x_block + iter.x_block_size >= iter.width
             THEN Ret([iter EXCEPT !.x = 0, !.y = 0, !.blocks = iter.blocks + 1,
                                   !.x_block = 0,
                                   !.y_block = iter.y_block + iter.y_block_size])
             ELSE Ret([iter EXCEPT !.x = 0, !.y = 0, !.blocks = iter.blocks + 1,
                                   !.x_block = iter.x_block + iter.x_block_size])

RECURSIVE IterTake(_, _, _)
\* the next n items of the iterator, or fewer when it returns None first
IterTake(iter, n, acc) ==
    LET nx == impl_pixelblockiterator(iter)
    IN  IF n = 0 \/ ~nx.some THEN [iter |-> iter, acc |-> acc]
        ELSE IterTake(nx.iter, n - 1, Append(acc, [blocks |-> nx.blocks, col |-> nx.col,
                                                   x |-> nx.x, y |-> nx.y]))

RECURSIVE IterItems(_, _)
\* everything the iterator yields until it returns None, in order, collected
\* one block at a time
IterItems(iter, acc) ==
    IF ~impl_pixelblockiterator(iter).some THEN acc
    ELSE IterItems(IterTake(iter, iter.x_block_size * iter.y_block_size, <<>>).iter,
                   acc \o IterTake(iter, iter.x_block_size * iter.y_block_size, <<>>).acc)

\* for ... in PixelBlockIterator::new(width, height, bx, by), and the Ext variant
PixelBlockItems(width, height, bx, by) ==
    IterItems(NewPixelBlockIterator(width, height, bx, by), <<>>)

NewDxtBlockIterator(width, height) ==
    [width |-> width, height |-> height, x |-> 0, y |-> 0, x_block |-> 0, y_block |-> 0]

\* DecodeDxtBlockIterator::next
DecodeDxtBlockIterator_next(self) ==
    IF self.y >= self.height
    THEN [some |-> FALSE, iter |-> self, x |-> 0, y |-> 0]
    ELSE LET Ret(it) == [some |-> TRUE, iter |-> it, x |-> self.x_block + self.x,
                         y |-> self.y_block + self.y]
         IN  IF self.x_block + 4 # 8
             THEN Ret([self EXCEPT !.x_block = self.x_block + 4])
             ELSE IF self.y_block + 4 # 8
             THEN Ret([self EXCEPT !.x_block = 0, !.y_block = self.y_block + 4])
             ELSE IF self.x + 8 >= self.width
             THEN Ret([self EXCEPT !.x_block = 0, !.y_block = 0, !.x = 0,
                                   !.y = self.y + 8])
             ELSE Ret([self EXCEPT !.x_block = 0, !.y_block = 0, !.x = self.x + 8])

RECURSIVE DxtItems(_, _)
DxtItems(iter, acc) ==
    LET n == DecodeDxtBlockIterator_next(iter)
    IN  IF ~n.some THEN acc
        ELSE DxtItems(n.iter, Append(acc, [x |-> n.x, y |-> n.y]))

\* for (x, y) in DecodeDxtBlockIterator::new(width, height)
DecodeDxtBlocks(width, height) == DxtItems(NewDxtBlockIterator(width, height), <<>>)

\* image.get_pixel(x, y) of an image [width, height, pixels], pixels being
\* indexed row by row from 0
get_pixel(img, x, y) == img.pixels[y * img.width + x]

\* the pixels EncodeDxtBlockIterator::next pushes for the sub-block at
\* (x0, y0), each as b, g, r, a, before block.resize(64, 0)
RECURSIVE DxtBlockBytes(_, _, _, _, _)
DxtBlockBytes(img, x0, y0, x_sub_block, y_sub_block) ==
    IF y_sub_block >= 4 \/ y0 + y_sub_block >= img.height THEN <<>>
    ELSE IF x_sub_block >= 4 \/ x0 + x_sub_block >= img.width
    THEN DxtBlockBytes(img, x0, y0, 0, y_sub_block + 1)
    ELSE << get_pixel(img, x0 + x_sub_block, y0 + y_sub_block)[3],
            get_pixel(img, x0 + x_sub_block, y0 + y_sub_block)[2],
            get_pixel(img, x0 + x_sub_block, y0 + y_sub_block)[1],
            get_pixel(img, x0 + x_sub_block, y0 + y_sub_block)[4] >>
         \o DxtBlockBytes(img, x0, y0, x_sub_block + 1, y_sub_block)

\* block.resize(64, 0)
Resize64(block) == block \o Zeros(64 - Len(block))

EncodeDxtBlockIterator_next_column_first(self, img) ==
    IF self.y >= self.height
    THEN [some |-> FALSE, iter |-> self, x |-> 0, y |-> 0, block |-> <<>>]
    ELSE LET Ret(it) ==
                 [some |-> TRUE, iter |-> it, x |-> self.x + self.x_block,
                  y |-> self.y + self.y_block,
                  block |-> Resize64(DxtBlockBytes(img, self.x + self.x_block,
                                                   self.y + self.y_block, 0, 0))]
         IN  IF self.y_block + 4 # 8
             THEN Ret([self EXCEPT !.y_block = self.y_block + 4])
             ELSE IF self.x_block + 4 # 8
             THEN Ret([self EXCEPT !.y_block = 0, !.x_block = self.x_block + 4])
             ELSE IF self.x + 8 >= self.width
             THEN Ret([self EXCEPT !.x_block = 0, !.y_block = 0, !.x = 0,
                                   !.y = self.y + 8])
             ELSE Ret([self EXCEPT !.x_block = 0, !.y_block = 0, !.x = self.x + 8])

\* EncodeDxtBlockIterator::next: the block yielded and the origin it was
\* read at
EncodeDxtBlockIterator_next(self, img) ==
    IF self.y >= self.height
    THEN [some |-> FALSE, iter |-> self, x |-> 0, y |-> 0, block |-> <<>>]
    ELSE LET Ret(it) ==
                 [some |-> TRUE, iter |-> it, x |-> self.x + self.x_block,
                  y |-> self.y + self.y_block,
                  block |-> Resize64(DxtBlockBytes(img, self.x + self.x_block,
                                                   self.y + self.y_block, 0, 0))]
         IN  IF self.x_block + 4 # 8
             THEN Ret([self EXCEPT !.x_block = self.x_block + 4])
             ELSE IF self.y_block + 4 # 8
             THEN Ret([self EXCEPT !.x_block = 0, !.y_block = self.y_block + 4])
             ELSE IF self.x + 8 >= self.width
             THEN Ret([self EXCEPT !.x_block = 0, !.y_block = 0, !.x = 0,
                                   !.y = self.y + 8])
             ELSE Ret([self EXCEPT !.x_block = 0, !.y_block = 0, !.x = self.x + 8])

RECURSIVE EncodeDxtTake(_, _, _, _)
\* the next n blocks of the iterator, or fewer when it returns None first
EncodeDxtTake(iter, img, n, acc) ==
    IF n = 0 \/ iter.y >= iter.height THEN [iter |-> iter, acc |-> acc]
    ELSE LET nx == EncodeDxtBlockIterator_next(iter, img)
         IN  EncodeDxtTake(nx.iter, img, n - 1,
                           Append(acc, [x |-> nx.x, y |-> nx.y, block |-> nx.block]))

RECURSIVE EncodeDxtItems(_, _, _)
\* everything the iterator yields until None, collected sixteen blocks at a
\* time
EncodeDxtItems(iter, img, acc) ==
    IF iter.y >= iter.height THEN acc
    ELSE EncodeDxtItems(EncodeDxtTake(iter, img, 16, <<>>).iter, img,
                        acc \o EncodeDxtTake(iter, img, 16, <<>>).acc)

\* for block in EncodeDxtBlockIterator::new(image)
EncodeDxtBlocks(img) ==
    EncodeDxtItems(NewDxtBlockIterator(img.width, img.height), img, <<>>)

\* the largest image side the iterators are run on
MaxDim == 17

\* an image whose pixels all differ in colour or position
GradientImage(width, height) ==
    [width |-> width, height |-> height,
     pixels |-> [i \in 0..(width * height - 1) |->
                   <<(i % width) * 8, (i \div width) * 8, (i * 3) % 256, 255>>]]

\* before a codec function or an iterator is called on its own: no encoder
\* or decoder is involved, and the call's arguments are one of calls
InitCodec(calls) ==
    /\ enc = NoEncoder
    /\ eres = RNone
    /\ ecall = NoCall
    /\ out = <<>>
    /\ DecoderIdle
    /\ cin \in calls
    /\ cout = NotCalled

IterCalls ==
    [done : {TRUE}, fn : {"PixelBlockIterator", "PixelBlockIteratorExt"},
     width : 0..MaxDim, height : 0..MaxDim, bs : BlockSizes]
    \cup [done : {TRUE}, fn : {"EncodeDxtBlockIterator", "DecodeDxtBlockIterator"},
          width : 0..MaxDim, height : 0..MaxDim, bs : {<<4, 4>>}]

\* for (x, y) in PixelBlockIterator::new(..): the items until None
PixelBlockIterator_for ==
    /\ cin.fn = "PixelBlockIterator" /\ ~cout.done
    /\ cout' = [done |-> TRUE,
                items |-> LET all == PixelBlockItems(cin.width, cin.height,
                                                     cin.bs[1], cin.bs[2])
                          IN  [k \in 1..Len(all) |-> [x |-> all[k].x, y |-> all[k].y]]]
    /\ UNCHANGED <<cin, encVars, decVars>>

\* for (block, col, x, y) in PixelBlockIteratorExt::new(..)
PixelBlockIteratorExt_for ==
    /\ cin.fn = "PixelBlockIteratorExt" /\ ~cout.done
    /\ cout' = [done |-> TRUE,
                items |-> PixelBlockItems(cin.width, cin.height, cin.bs[1], cin.bs[2])]
    /\ UNCHANGED <<cin, encVars, decVars>>

\* for block in EncodeDxtBlockIterator::new(image)
EncodeDxtBlockIterator_for ==
    /\ cin.fn = "EncodeDxtBlockIterator" /\ ~cout.done
    /\ cout' = [done |-> TRUE,
                items |-> EncodeDxtBlocks(GradientImage(cin.width, cin.height))]
    /\ UNCHANGED <<cin, encVars, decVars>>

\* for (x, y) in DecodeDxtBlockIterator::new(width, height)
DecodeDxtBlockIterator_for ==
    /\ cin.fn = "DecodeDxtBlockIterator" /\ ~cout.done
    /\ cout' = [done |-> TRUE, items |-> DecodeDxtBlocks(cin.width, cin.height)]
    /\ UNCHANGED <<cin, encVars, decVars>>

NextIter ==
    \/ PixelBlockIterator_for
    \/ PixelBlockIteratorExt_for
    \/ EncodeDxtBlockIterator_for
    \/ DecodeDxtBlockIterator_for

SpecIter == InitCodec(IterCalls) /\ [][NextIter]_vars

(***************************************************************************)
(* pixel_codecs.rs: the decoding functions.  data is the payload, indexed  *)
(* from 0 as in the source.  Each returns what the Rust function returns:  *)
(* "Ok" with the image, "Io" (a cursor read past the end), or "Panic" (a   *)
(* slice index or put_pixel out of bounds).                                *)
(***************************************************************************)
At(data, i) == data[i + 1]

\* cursor.read_u16::<BigEndian>() at byte offset i
U16BE(data, i) == At(data, i) * 256 + At(data, i + 1)

SetMin(S) == CHOOSE m \in S : \A o \in S : m <= o
SetMax(S) == CHOOSE m \in S : \A o \in S : m >= o

decode_pixel_rgb5a3(pixel) ==
    IF (pixel \div 32768) % 2 # 0
    THEN << (((pixel \div 1024) % 32) * 255) \div 31,
            (((pixel \div 32) % 32) * 255) \div 31,
            ((pixel % 32) * 255) \div 31,
            255 >>
    ELSE << (((pixel \div 256) % 16) * 255) \div 15,
            (((pixel \div 16) % 16) * 255) \div 15,
            ((pixel % 16) * 255) \div 15,
            (((pixel \div 4096) % 8) * 255) \div 7 >>

decode_pixel_rgb565(pixel) ==
    << (((pixel \div 2048) % 32) * 255) \div 31,
       (((pixel \div 32) % 64) * 255) \div 63,
       ((pixel % 32) * 255) \div 31,
       255 >>

decode_pixel_intensity_alpha8(pixel, alpha) == <<pixel, pixel, pixel, alpha>>

\* RgbaImage::new(width, height) after the put_pixel calls of a loop over
\* items (records with x, y): fail[k] is what stops the loop at the k-th
\* item ("none" when nothing does), value[k] the pixel it puts.
DecodeLoop(items, width, height, fail, value) ==
    LET bad == {k \in 1..Len(items) : fail[k] # "none"}
    IN  IF bad # {}
        THEN [res |-> fail[SetMin(bad)], width |-> width, height |-> height,
              pixels |-> <<>>]
        ELSE [res |-> "Ok", width |-> width, height |-> height,
              pixels |->
                [i \in 0..(width * height - 1) |->
                    LET ks == {k \in 1..Len(items) :
                                 items[k].x = i % width /\ items[k].y = i \div width}
                    IN  IF ks = {} THEN <<0, 0, 0, 0>> ELSE value[SetMax(ks)]]]

\* image.put_pixel(x, y, ..) panics outside the image
PutPixelPanics(item, width, height) == item.x >= width \/ item.y >= height

\* what stops a loop that reads n bytes per item through a Cursor, from
\* offset start on, and puts one pixel
CursorFail(data, start, n, items, width, height) ==
    [k \in 1..Len(items) |->
        IF start + (k - 1) * n + n > Len(data) THEN "Io"
        ELSE IF PutPixelPanics(items[k], width, height) THEN "Panic"
        ELSE "none"]

\* what stops a loop that indexes the payload at idx[k] and puts one pixel
IndexFail(data, idx, items, width, height) ==
    [k \in 1..Len(items) |->
        IF idx[k] >= Len(data) THEN "Panic"
        ELSE IF PutPixelPanics(items[k], width, height) THEN "Panic"
        ELSE "none"]

decode_pixels_rgb5a3(data, width, height) ==
    LET items == PixelBlockItems(width, height, 4, 4)
    IN  DecodeLoop(items, width, height,
                   CursorFail(data, 0, 2, items, width, height),
                   [k \in 1..Len(items) |-> decode_pixel_rgb5a3(U16BE(data, 2 * (k - 1)))])

decode_pixels_rgb565(data, width, height) ==
    LET items == PixelBlockItems(width, height, 4, 4)
    IN  DecodeLoop(items, width, height,
                   CursorFail(data, 0, 2, items, width, height),
                   [k \in 1..Len(items) |-> decode_pixel_rgb565(U16BE(data, 2 * (k - 1)))])

decode_pixels_argb8888(data, width, height) ==
    LET items == PixelBlockItems(width, height, 4, 4)
        \* src_idx + block * 32, src_idx growing by 2 per item
        cur_idx == [k \in 1..Len(items) |-> 2 * (k - 1) + items[k].blocks * 32]
    IN  DecodeLoop(items, width, height,
                   IndexFail(data, [k \in 1..Len(items) |-> cur_idx[k] + 33],
                             items, width, height),
                   [k \in 1..Len(items) |->
                       << At(data, cur_idx[k] + 1), At(data, cur_idx[k] + 32),
                          At(data, cur_idx[k] + 33), At(data, cur_idx[k]) >>])

decode_pixels_intensity_alpha8(data, width, height) ==
    LET items == PixelBlockItems(width, height, 4, 4)
    IN  DecodeLoop(items, width, height,
                   CursorFail(data, 0, 2, items, width, height),
                   [k \in 1..Len(items) |->
                       decode_pixel_intensity_alpha8(At(data, 2 * (k - 1) + 1),
                                                     At(data, 2 * (k - 1)))])

decode_pixels_intensity_alpha4(data, width, height) ==
    LET items == PixelBlockItems(width, height, 8, 4)
    IN  DecodeLoop(items, width, height,
                   CursorFail(data, 0, 1, items, width, height),
                   [k \in 1..Len(items) |->
                       LET pixel == At(data, k - 1)
                           c == ((pixel % 16) * 255) \div 15
                           a == (((pixel \div 16) % 16) * 255) \div 15
                       IN  <<c, c, c, a>>])

decode_pixels_intensity_8(data, width, height) ==
    LET items == PixelBlockItems(width, height, 8, 4)
    IN  DecodeLoop(items, width, height,
                   CursorFail(data, 0, 1, items, width, height),
                   [k \in 1..Len(items) |->
                       LET c == At(data, k - 1) IN <<c, c, c, 255>>])

\* (byte >> ((!col & 1) * 4)) & 0x0F: the high nibble for an even column
Nibble(byte, col) == IF col % 2 = 0 THEN (byte \div 16) % 16 ELSE byte % 16

decode_pixels_intensity_4(data, width, height) ==
    LET items == PixelBlockItems(width, height, 8, 8)
    IN  DecodeLoop(items, width, height,
                   IndexFail(data, [k \in 1..Len(items) |-> (k - 1) \div 2],
                             items, width, height),
                   [k \in 1..Len(items) |->
                       LET c == (Nibble(At(data, (k - 1) \div 2), items[k].col) * 255)
                                    \div 15
                       IN  <<c, c, c, 255>>])

INDEX4_PALETTE_SIZE == 16
INDEX8_PALETTE_SIZE == 256

\* decode_palette: entry i (from 0) of the palette at the start of data
PaletteEntry(data, palette_pixel_format, i) ==
    CASE palette_pixel_format = "IntensityA8" ->
            decode_pixel_intensity_alpha8(At(data, 2 * i + 1), At(data, 2 * i))
      [] palette_pixel_format = "RGB565" -> decode_pixel_rgb565(U16BE(data, 2 * i))
      [] palette_pixel_format = "RGB5A3" -> decode_pixel_rgb5a3(U16BE(data, 2 * i))

IoError(width, height) == [res |-> "Io", width |-> width, height |-> height, pixels |-> <<>>]

decode_pixels_with_palette_index8(data, width, height, palette_pixel_format) ==
    LET items == PixelBlockItems(width, height, 8, 4)
        start == 2 * INDEX8_PALETTE_SIZE
    IN  IF Len(data) < start THEN IoError(width, height)
        ELSE DecodeLoop(items, width, height,
                        CursorFail(data, start, 1, items, width, height),
                        [k \in 1..Len(items) |->
                            PaletteEntry(data, palette_pixel_format,
                                         At(data, start + k - 1))])

decode_pixels_with_palette_index4(data, width, height, palette_pixel_format) ==
    LET items == PixelBlockItems(width, height, 8, 8)
        start == 2 * INDEX4_PALETTE_SIZE
    IN  IF Len(data) < start THEN IoError(width, height)
        ELSE DecodeLoop(items, width, height,
                        IndexFail(data, [k \in 1..Len(items) |-> start + ((k - 1) \div 2)],
                                  items, width, height),
                        [k \in 1..Len(items) |->
                            PaletteEntry(data, palette_pixel_format,
                                         Nibble(At(data, start + ((k - 1) \div 2)),
                                                items[k].col))])

\* the four colours of a DXT1 block from its two stored 5-6-5 colours
DxtColors(encoded_1, encoded_2) ==
    LET c0 == decode_pixel_rgb565(encoded_1)
        c1 == decode_pixel_rgb565(encoded_2)
    IN  IF encoded_1 > encoded_2
        THEN << c0, c1,
                << (c0[1] * 2 + c1[1]) \div 3, (c0[2] * 2 + c1[2]) \div 3,
                   (c0[3] * 2 + c1[3]) \div 3, 255 >>,
                << (c1[1] * 2 + c0[1]) \div 3, (c1[2] * 2 + c0[2]) \div 3,
                   (c1[3] * 2 + c0[3]) \div 3, 255 >> >>
        ELSE << c0, c1,
                << (c0[1] + c1[1]) \div 2, (c0[2] + c1[2]) \div 2,
                   (c0[3] + c1[3]) \div 2, 255 >>,
                <<0, 0, 0, 0>> >>

\* (byte >> (6 - x2 * 2)) & 0x3
Crumb(byte, x2) ==
    CASE x2 = 0 -> (byte \div 64) % 4
      [] x2 = 1 -> (byte \div 16) % 4
      [] x2 = 2 -> (byte \div 4) % 4
      [] x2 = 3 -> byte % 4

\* the body of decode_pixels_dxt1 over the blocks its iterator yields
Dxt1Loop(data, width, height, blocks) ==
    LET src(k) == 8 * (k - 1)
        Fail(k) ==
            IF src(k) + 4 > Len(data) THEN "Io"
            ELSE IF \E y2 \in 0..3 : /\ blocks[k].y + y2 < height
                                      /\ blocks[k].x < width
                                      /\ src(k) + 4 + y2 >= Len(data)
                 THEN "Panic"
                 ELSE "none"
        bad == {k \in 1..Len(blocks) : Fail(k) # "none"}
    IN  IF bad # {}
        THEN [res |-> Fail(SetMin(bad)), width |-> width, height |-> height,
              pixels |-> <<>>]
        ELSE [res |-> "Ok", width |-> width, height |-> height,
              pixels |->
                [i \in 0..(width * height - 1) |->
                    LET px == i % width
                        py == i \div width
                        k == SetMax({j \in 1..Len(blocks) :
                                       /\ blocks[j].x <= px /\ px < blocks[j].x + 4
                                       /\ blocks[j].y <= py /\ py < blocks[j].y + 4})
                        colors == DxtColors(U16BE(data, src(k)), U16BE(data, src(k) + 2))
                    IN  colors[1 + Crumb(At(data, src(k) + 4 + (py - blocks[k].y)),
                                         px - blocks[k].x)]]]

decode_pixels_dxt1(data, width, height) ==
    Dxt1Loop(data, width, height, DecodeDxtBlocks(width, height))

(***************************************************************************)
(* TextureDecoder                                                          *)
(***************************************************************************)
\* impl TryFrom<u8> for DataFormat: the format of a code, "none" for Err
DataFormatOf(value) ==
    IF \E d \in DataFormats : DataFormatCode(d) = value
    THEN CHOOSE d \in DataFormats : DataFormatCode(d) = value
    ELSE "none"

\* impl TryFrom<u8> for PixelFormat
PixelFormatOf(value) ==
    IF \E q \in PixelFormats : PixelFormatCode(q) = value
    THEN CHOOSE q \in PixelFormats : PixelFormatCode(q) = value
    ELSE "none"

\* DataFlags::from_bits: None when a bit outside Mipmaps | ExternalPalette |
\* InternalPalette is set
from_bits_is_some(bits) == ~HasBit(bits, 4)

\* create_new_decoder(data_format).decode(data, width, height).  The factory
\* builds no decoder for the two indexed formats.
create_new_decoder(data_format, data, width, height) ==
    CASE data_format = "Rgb5a3" -> decode_pixels_rgb5a3(data, width, height)
      [] data_format = "Rgb565" -> decode_pixels_rgb565(data, width, height)
      [] data_format = "Argb8888" -> decode_pixels_argb8888(data, width, height)
      [] data_format = "IntensityA8" -> decode_pixels_intensity_alpha8(data, width, height)
      [] data_format = "IntensityA4" -> decode_pixels_intensity_alpha4(data, width, height)
      [] data_format = "Intensity8" -> decode_pixels_intensity_8(data, width, height)
      [] data_format = "Intensity4" -> decode_pixels_intensity_4(data, width, height)
      [] data_format = "Dxt1" -> decode_pixels_dxt1(data, width, height)
      [] OTHER -> [res |-> "Panic", width |-> width, height |-> height, pixels |-> <<>>]

\* create_new_decoder_with_palette(data_format).decode(data, width, height, format)
create_new_decoder_with_palette(data_format, data, width, height, palette_format) ==
    CASE data_format = "Index8" ->
            decode_pixels_with_palette_index8(data, width, height, palette_format)
      [] data_format = "Index4" ->
            decode_pixels_with_palette_index4(data, width, height, palette_format)
      [] OTHER -> [res |-> "Panic", width |-> width, height |-> height, pixels |-> <<>>]

\* Cursor::read_exact of n bytes at p succeeds
CanRead(f, p, n) == p + n <= Len(f)

\* where a failed read_exact leaves the cursor: at the end of the data in a
\* standard library that moves it there, where it was in one that does not
AfterShortRead(f, p, bld) == IF bld.read_exact_seeks_end THEN Len(f) ELSE p

\* cursor.read_u32::<LittleEndian>() at p, as two 16-bit halves
ReadU32LE(f, p) == [lo |-> At(f, p) + 256 * At(f, p + 1),
                    hi |-> At(f, p + 2) + 256 * At(f, p + 3)]

\* v - 8 in u32 arithmetic: the wrapped difference, and whether it overflowed
Sub8(v) ==
    IF v.lo >= 8 THEN [lo |-> v.lo - 8, hi |-> v.hi, overflow |-> FALSE]
    ELSE IF v.hi > 0 THEN [lo |-> v.lo + 65536 - 8, hi |-> v.hi - 1, overflow |-> FALSE]
    ELSE [lo |-> v.lo + 65536 - 8, hi |-> 65535, overflow |-> TRUE]

\* a usize n equals the u32 v
EqualsU32(n, v) == n \div 65536 = v.hi /\ n % 65536 = v.lo

\* is_valid_gvr: reads the container magic at the cursor, wherever it is,
\* then the texture magic at 0x10
is_valid_gvr(f, p, bld) ==
    IF ~CanRead(f, p, 4) THEN [res |-> "Io", pos |-> AfterShortRead(f, p, bld)]
    ELSE IF SubSeq(f, p + 1, p + 4) \notin {GCIX, GBIX}
    THEN [res |-> "InvalidFile", pos |-> p + 4]
    ELSE IF ~CanRead(f, 16, 4) THEN [res |-> "Io", pos |-> AfterShortRead(f, 16, bld)]
    ELSE IF SubSeq(f, 17, 20) # GVRT THEN [res |-> "InvalidFile", pos |-> 20]
    ELSE [res |-> "Ok", pos |-> 20]

\* the length check of decode(): read_size != data_len
LengthMismatch(read_size, data_len) == ~EqualsU32(read_size, data_len)

\* self.image = Some(decoder.decode(..)?): d is what the pixel decoder
\* returned, q the cursor after read_to_end
Decoded(d, q, img) ==
    IF d.res # "Ok" THEN [res |-> d.res, pos |-> q, image |-> img]
    ELSE [res |-> "Ok", pos |-> q,
          image |-> [some |-> TRUE, width |-> d.width, height |-> d.height,
                     pixels |-> d.pixels]]

\* TextureDecoder::decode with the cursor at p: the result, the cursor and
\* the image it leaves.  alloc_ok: Vec::with_capacity of 2 GiB or more succeeds.
decode(f, p, img, bld, alloc_ok) ==
    LET Ret(r, q) == [res |-> r, pos |-> q, image |-> img]
        Short(q) == Ret("Io", AfterShortRead(f, q, bld))
        magic == is_valid_gvr(f, p, bld)
    IN  IF magic.res # "Ok" THEN Ret(magic.res, magic.pos)
        ELSE IF ~CanRead(f, 20, 4) THEN Short(20)
        ELSE
        LET data_len == Sub8(ReadU32LE(f, 20))
        IN  IF data_len.overflow /\ bld.overflow_checks THEN Ret("Panic", 24)
            ELSE IF ~CanRead(f, 26, 1) THEN Short(26)
            ELSE
            LET flags == At(f, 26)
                data_flags == flags % 16
                palette_format == PixelFormatOf((flags \div 16) % 16)
            IN  IF ~from_bits_is_some(data_flags) THEN Ret("InvalidFile", 27)
                ELSE IF palette_format = "none" THEN Ret("InvalidFile", 27)
                ELSE IF ~CanRead(f, 27, 1) THEN Short(27)
                ELSE
                LET data_format == DataFormatOf(At(f, 27))
                IN  IF data_format = "none" THEN Ret("InvalidFile", 28)
                    ELSE IF Intersects(data_flags, FlagExternalPalette)
                    THEN Ret("Panic", 28)
                    ELSE IF /\ Intersects(data_flags, FlagInternalPalette)
                            /\ data_format \notin {"Index4", "Index8"}
                    THEN Ret("InvalidFile", 28)
                    ELSE IF ~CanRead(f, 28, 2) THEN Short(28)
                    ELSE IF ~CanRead(f, 30, 2) THEN Short(30)
                    ELSE
                    LET width == U16BE(f, 28)
                        height == U16BE(f, 30)
                        data == SubSeq(f, 33, Len(f))
                        read_size == Len(f) - 32
                    IN  IF data_len.hi >= 32768 /\ ~alloc_ok THEN Ret("Panic", 32)
                        ELSE IF LengthMismatch(read_size, data_len)
                        THEN Ret("InvalidFile", Len(f))
                        ELSE
                        Decoded(
                            IF Intersects(data_flags, FlagInternalPalette)
                            THEN create_new_decoder_with_palette(
                                     data_format, data, width, height, palette_format)
                            ELSE create_new_decoder(data_format, data, width, height),
                            Len(f), img)

\* the decode() calls the model follows on one decoder
MaxDecodeCalls == 3

\* a file with a complete header
GvrFile(head, tex_magic, chunk, flags, fmt, width, height, data) ==
    head \o Zeros(4) \o tex_magic \o chunk \o Zeros(2) \o <<flags, fmt>>
         \o BE16(width) \o BE16(height) \o data

XXXX == <<88, 88, 88, 88>>

\* bytes 0x00..0x0B: the container magic, the LE length 8 and the global index
Heads == { GCIX \o <<8, 0, 0, 0>> \o Zeros(4),
           GBIX \o <<8, 0, 0, 0>> \o Zeros(4),
           XXXX \o <<8, 0, 0, 0>> \o Zeros(4),
           XXXX \o GCIX \o Zeros(4),
           XXXX \o <<8, 0, 0, 0>> \o GCIX }

\* the u32 at 0x14 for a payload of n bytes: exact, one more, one fewer,
\* below 8, and 0xFF000000
Chunks(n) == { LE32(n + 8), LE32(n + 9), LE32(n + 7), <<4, 0, 0, 0>>, <<0, 0, 0, 255>> }

HeaderFiles ==
    { GvrFile(h, m, c, fl, fm, 4, 4, Payload(32)) :
        h \in Heads, m \in {GVRT, <<71, 86, 82, 88>>}, c \in Chunks(32),
        fl \in {0, 1, 2, 4, 8, 24, 48},
        fm \in {DataFormatCode("Rgb565"), DataFormatCode("Index8"), 7} }

BodyFiles ==
    { GvrFile(GCIX \o <<8, 0, 0, 0>> \o Zeros(4), GVRT, LE32(n + 8), fl,
              DataFormatCode(d), wh[1], wh[2], Payload(n)) :
        fl \in {0, 1, 8, 24, 40}, d \in DataFormats,
        wh \in {<<4, 4>>, <<8, 4>>, <<8, 8>>, <<2, 4>>, <<0, 4>>},
        n \in {0, 32, 64, 544} }

TruncatedFiles ==
    LET whole == GvrFile(GCIX \o <<8, 0, 0, 0>> \o Zeros(4), GVRT, LE32(40), 0,
                         DataFormatCode("Rgb565"), 4, 4, Payload(32))
    IN  { SubSeq(whole, 1, n) : n \in 0..Len(whole) }

Files == HeaderFiles \cup BodyFiles \cup TruncatedFiles

\* TextureDecoder::new / new_from_buffer: a cursor at 0 over the file's bytes
InitDecoder ==
    /\ enc = NoEncoder
    /\ eres = RNone
    /\ ecall = NoCall
    /\ out = <<>>
    /\ file \in Files
    /\ pos = 0
    /\ image = NoImage
    /\ dres = "none"
    /\ dhist = <<>>
    /\ ares = "none"
    /\ alive = TRUE
    /\ build \in Builds
    /\ CodecIdle

\* a call of decode(); a panic ends the use of the decoder
TextureDecoder_decode(alloc_ok) ==
    /\ alive
    /\ Len(dhist) < MaxDecodeCalls
    /\ LET r == decode(file, pos, image, build, alloc_ok)
       IN  /\ pos' = r.pos
           /\ image' = r.image
           /\ dres' = r.res
           /\ dhist' = Append(dhist, r.res)
           /\ alive' = (r.res # "Panic")
    /\ ares' = "none"
    /\ UNCHANGED <<file, build>>
    /\ UNCHANGED encVars
    /\ UNCHANGED codecVars

is_decoded == image.some

\* into_decoded() consumes the decoder
into_decoded ==
    /\ alive
    /\ ares' = IF image.some THEN "Ok" ELSE "Undecoded"
    /\ alive' = FALSE
    /\ UNCHANGED <<file, pos, image, dres, dhist, build>>
    /\ UNCHANGED encVars
    /\ UNCHANGED codecVars

\* save(path); written: the image crate wrote the file
save(written) ==
    /\ alive
    /\ ares' = IF ~image.some THEN "Undecoded"
               ELSE IF written THEN "Ok" ELSE "Image"
    /\ UNCHANGED <<file, pos, image, dres, dhist, alive, build>>
    /\ UNCHANGED encVars
    /\ UNCHANGED codecVars

NextDecoder ==
    \/ \E alloc_ok \in BOOLEAN : TextureDecoder_decode(alloc_ok)
    \/ into_decoded
    \/ \E written \in BOOLEAN : save(written)

SpecDecoder == InitDecoder /\ [][NextDecoder]_vars

(***************************************************************************)
(* Claims about the encoder                                                *)
(***************************************************************************)

\* C1: encode-time validation of a w x h image by an encoder of block size
\* (bx, by) returns SmallDimensions(w, h, bx, by) when w < bx or h < by;
\* otherwise InvalidDimensions(w, h, max(bx, by)) when w or h is not a
\* multiple of max(bx, by); otherwise Ok.
C1_ValidateInput ==
    (ecall.op = "encode" /\ ecall.ext # "load_fails") =>
        LET w == ecall.w
            h == ecall.h
            bx == ecall.bx
            by == ecall.by
            m == IF bx > by THEN bx ELSE by
        IN  /\ (w < bx \/ h < by) =>
                    ecall.validated = <<"SmallDimensions", w, h, bx, by>>
            /\ (w >= bx /\ h >= by /\ (w % m # 0 \/ h % m # 0)) =>
                    ecall.validated = <<"InvalidDimensions", w, h, m>>
            /\ (w >= bx /\ h >= by /\ w % m = 0 /\ h % m = 0) =>
                    ecall.validated = <<"Ok">>
            \* encode() returns the validation error as it is
            /\ ecall.validated # <<"Ok">> => eres = ecall.validated

\* a 6x8 image with a 4x4-block format gives InvalidDimensions(6,8,4)
C1_Witness ==
    /\ ecall.op = "encode"
    /\ <<ecall.w, ecall.h, ecall.bx, ecall.by>> = <<6, 8, 4, 4>>
    /\ eres = <<"InvalidDimensions", 6, 8, 4>>

\* C2: new_gcix(d) and new_gbix(d) return the Format error exactly when d is
\* Index4 or Index8; new_gcix_palettized(p, d) and new_gbix_palettized(p, d)
\* exactly when d is not; in every other case an encoder is returned.
C2_ConstructorFormats ==
    LET indexed == ecall.d \in {"Index4", "Index8"}
    IN  /\ ecall.op \in {"new_gcix", "new_gbix"} =>
            /\ (eres = <<"Format">>) <=> indexed
            /\ ~indexed => (eres = <<"Ok">> /\ enc.some /\ enc.data_format = ecall.d)
        /\ ecall.op \in {"new_gcix_palettized", "new_gbix_palettized"} =>
            /\ (eres = <<"Format">>) <=> ~indexed
            /\ indexed => (/\ eres = <<"Ok">>
                            /\ enc.some
                            /\ enc.data_format = ecall.d
                            /\ enc.pixel_format = ecall.p)
        /\ (ecall.op \in {"new_gcix", "new_gbix", "new_gcix_palettized",
                          "new_gbix_palettized"} /\ eres = <<"Format">>) => ~enc.some

\* Rgb565 through the indexed constructor is refused
C2_Witness ==
    /\ ecall.op = "new_gbix_palettized"
    /\ ecall.d = "Rgb565"
    /\ eres = <<"Format">>

\* C3: with_mipmaps() returns the encoder with the Mipmaps flag set when the
\* data format is Dxt1, Rgb565 or Rgb5a3, and the Mipmap error for every
\* other data format, the Index4/Index8 of the palettized constructors too.
C3_WithMipmaps ==
    ecall.op = "with_mipmaps" =>
        IF ecall.self.data_format \in {"Dxt1", "Rgb565", "Rgb5a3"}
        THEN /\ eres = <<"Ok">>
             /\ enc.some
             /\ (enc.data_flags \div 1) % 2 = 1
             /\ enc.data_format = ecall.self.data_format
             /\ enc.texture_type = ecall.self.texture_type
             /\ enc.global_index = ecall.self.global_index
        ELSE /\ eres = <<"Mipmap">>
             /\ ~enc.some

\* with_mipmaps() on an Index8 encoder of a palettized constructor
C3_Witness ==
    /\ ecall.op = "with_mipmaps"
    /\ ecall.self.data_format = "Index8"
    /\ ecall.self.data_flags = 8
    /\ eres = <<"Mipmap">>

\* C4: every encoder built by a successful constructor and any number of
\* with_mipmaps() / with_global_index() calls has InternalPalette set exactly
\* when its data format is Index4 or Index8, Mipmaps set only when it is
\* Dxt1, Rgb565 or Rgb5a3, and never ExternalPalette (0x2) nor bit 0x4.
C4_HeaderInvariant ==
    enc.some =>
        /\ ((enc.data_flags \div 8) % 2 = 1) <=> (enc.data_format \in {"Index4", "Index8"})
        /\ (enc.data_flags % 2 = 1) => enc.data_format \in {"Dxt1", "Rgb565", "Rgb5a3"}
        /\ (enc.data_flags \div 2) % 2 = 0
        /\ (enc.data_flags \div 4) % 2 = 0
        /\ enc.data_flags \in 0..15

\* a Gbix encoder after both builders
C4_Witness ==
    /\ enc.some
    /\ enc.texture_type = "Gbix"
    /\ enc.data_flags = 1
    /\ enc.global_index # 0
    /\ ecall.op = "with_mipmaps"

\* C10: the output of encode() starts with a header of exactly 0x20 bytes:
\* GCIX or GBIX, little-endian u32 8, the global index big-endian, four zero
\* bytes, GVRT, little-endian u32 payload_len + 8, two zero bytes, the flags
\* byte (palette colour format in bits 7-4, container flags in bits 3-0),
\* the data format code, width and height as big-endian u16; the payload
\* follows at 0x20.
C10_HeaderLayout ==
    (ecall.op = "encode" /\ eres = <<"Ok">>) =>
        LET payload_len == Len(ecall.encoded)
        IN  /\ Len(out) = 32 + payload_len
            /\ \A i \in 1..Len(out) : out[i] \in 0..255
            /\ <<out[1], out[2], out[3], out[4]>> =
                    (IF enc.texture_type = "Gcix" THEN <<71, 67, 73, 88>>
                     ELSE <<71, 66, 73, 88>>)
            /\ <<out[5], out[6], out[7], out[8]>> = <<8, 0, 0, 0>>
            /\ out[9] * 16777216 + out[10] * 65536 + out[11] * 256 + out[12]
                    = enc.global_index
            /\ <<out[13], out[14], out[15], out[16]>> = <<0, 0, 0, 0>>
            /\ <<out[17], out[18], out[19], out[20]>> = <<71, 86, 82, 84>>
            /\ out[21] + out[22] * 256 + out[23] * 65536 + out[24] * 16777216
                    = payload_len + 8
            /\ <<out[25], out[26]>> = <<0, 0>>
            /\ out[27] \div 16 = PixelFormatCode(enc.pixel_format)
            /\ out[27] % 16 = enc.data_flags
            /\ out[28] = DataFormatCode(enc.data_format)
            /\ out[29] * 256 + out[30] = ecall.w
            /\ out[31] * 256 + out[32] = ecall.h
            /\ \A i \in 1..payload_len : out[32 + i] = ecall.encoded[i]

\* a GBIX file with a non-zero global index, a palette format and a payload
\* whose chunk size needs a second byte
C10_Witness ==
    /\ ecall.op = "encode"
    /\ eres = <<"Ok">>
    /\ enc.texture_type = "Gbix"
    /\ enc.global_index = 16909060
    /\ enc.pixel_format = "RGB5A3"
    /\ Len(ecall.encoded) + 8 >= 256
    /\ ecall.w = 300

(***************************************************************************)
(* Claims about the decoder                                                *)
(***************************************************************************)
Failed(r) == r \in {"InvalidFile", "Io", "Panic"}

\* C5: into_decoded() and save() return Undecoded whenever no decode() has
\* been called or the last decode() call failed, and a failed decode()
\* leaves is_decoded() false.
C5_UndecodedAfterFailure ==
    /\ (dhist # <<>> /\ Failed(dhist[Len(dhist)])) => ~is_decoded
    /\ (ares # "none" /\ (dhist = <<>> \/ Failed(dhist[Len(dhist)])))
          => ares = "Undecoded"

\* C6: once a decode() call has returned an error, every later decode() call
\* on the same decoder returns an error, and a decoder whose first decode()
\* failed never has is_decoded() true.
C6_FailedIsTerminal ==
    /\ \A i \in 1..Len(dhist) :
          Failed(dhist[i]) => \A j \in i..Len(dhist) : Failed(dhist[j])
    /\ (dhist # <<>> /\ Failed(dhist[1])) => ~is_decoded

\* a complete header with valid magic strings, known flag bits, a valid
\* palette format and a valid data format
ValidHeader(f) ==
    /\ Len(f) >= 32
    /\ SubSeq(f, 1, 4) \in {GCIX, GBIX}
    /\ SubSeq(f, 17, 20) = GVRT
    /\ from_bits_is_some(At(f, 26) % 16)
    /\ PixelFormatOf(At(f, 26) \div 16) # "none"
    /\ DataFormatOf(At(f, 27)) # "none"

\* C7: the first decode() of a file with a valid header whose flags have the
\* ExternalPalette bit returns an error value: it fails and does not abort.
C7_ExternalPaletteIsError ==
    (/\ dhist # <<>>
     /\ ValidHeader(file)
     /\ Intersects(At(file, 26) % 16, FlagExternalPalette))
        => dhist[1] \in {"InvalidFile", "Io"}

\* C8: no decode() call aborts: each returns Ok or a typed error.
C8_DecodeNeverPanics ==
    \A i \in 1..Len(dhist) : dhist[i] \in {"Ok", "InvalidFile", "Io"}

\* the bytes after the 0x20-byte header are as many as the u32 at 0x14
\* minus 8
LengthAgrees(f) ==
    LET v == ReadU32LE(f, 20)
    IN  /\ v.hi = (Len(f) - 32 + 8) \div 65536
        /\ v.lo = (Len(f) - 32 + 8) % 65536

\* C9: the first decode() of a file with a complete header returns
\* InvalidFile when the bytes after the header are more or fewer than the
\* declared payload length, and returns Ok only when they are as many.
C9_LengthMismatchIsInvalidFile ==
    (dhist # <<>> /\ Len(file) >= 32) =>
        /\ ~LengthAgrees(file) => dhist[1] = "InvalidFile"
        /\ dhist[1] = "Ok" => LengthAgrees(file)

\* C24: decode() accepts only headers in which the palette flags and the
\* data format agree: the first decode() of a file with a valid header that
\* has InternalPalette set and a data format other than Index4/Index8 returns
\* InvalidFile, and so does that of a file with a valid header that has data
\* format Index4 or Index8 and no palette flag set.
C24_PaletteFlagsAgree ==
    (dhist # <<>> /\ ValidHeader(file)) =>
      LET data_flags == At(file, 26) % 16
          data_format == DataFormatOf(At(file, 27))
      IN  /\ (/\ Intersects(data_flags, FlagInternalPalette)
              /\ data_format \notin {"Index4", "Index8"})
                => dhist[1] = "InvalidFile"
          /\ (/\ data_format \in {"Index4", "Index8"}
              /\ ~Intersects(data_flags, FlagInternalPalette)
              /\ ~Intersects(data_flags, FlagExternalPalette))
                => dhist[1] = "InvalidFile"

\* C28: decode() is repeatable: on a TextureDecoder whose previous decode()
\* call returned Ok, calling decode() again returns Ok and leaves a decoded
\* image; its outcome does not depend on the cursor position left by the
\* earlier call.
C28_DecodeRepeatable ==
    \A i \in 1..Len(dhist) :
       (i > 1 /\ dhist[i - 1] = "Ok") =>
          /\ dhist[i] = "Ok"
          /\ i = Len(dhist) => is_decoded

(***************************************************************************)
(* Pixel encoders (pixel_codecs.rs)                                        *)
(***************************************************************************)
\* image.get_pixel(x, y) panics outside the image
GetPixelPanics(item, img) == item.x >= img.width \/ item.y >= img.height

encode_pixel_rgb565_low_bits(p) ==
    (p[1] % 32) * 2048 + (p[2] % 64) * 32 + (p[3] % 32)

encode_pixel_rgb565(p) ==
    (p[1] \div 8) * 2048 + (p[2] \div 4) * 32 + (p[3] \div 8)

encode_pixel_rgb5a3(p) ==
    IF p[4] <= 218
    THEN (p[1] \div 16) * 256 + (p[2] \div 16) * 16 + (p[3] \div 16)
         + (p[4] \div 32) * 4096
    ELSE (p[1] \div 8) * 1024 + (p[2] \div 8) * 32 + (p[3] \div 8) + 32768

\* a loop that pushes one big-endian u16 per item; pixel16[k] is the u16 of
\* the k-th item
PushU16Loop(img, items, pixel16) ==
    IF \E k \in 1..Len(items) : GetPixelPanics(items[k], img)
    THEN [res |-> "Panic", data |-> <<>>]
    ELSE [res |-> "Ok",
          data |-> [j \in 1..(2 * Len(items)) |->
                      IF j % 2 = 1 THEN pixel16[(j + 1) \div 2] \div 256
                      ELSE pixel16[(j + 1) \div 2] % 256]]

encode_pixels_rgb5a3(img) ==
    LET items == PixelBlockItems(img.width, img.height, 4, 4)
    IN  PushU16Loop(img, items,
                    [k \in 1..Len(items) |-> encode_pixel_rgb5a3(get_pixel(img, items[k].x, items[k].y))])

encode_pixels_rgb565(img) ==
    LET items == PixelBlockItems(img.width, img.height, 4, 4)
    IN  PushU16Loop(img, items,
                    [k \in 1..Len(items) |-> encode_pixel_rgb565(get_pixel(img, items[k].x, items[k].y))])

\* the assignments dest[..] = .. of encode_pixels_argb8888 in program order,
\* each as <<index, byte>>
Argb8888Writes_planar(img, items) ==
    [j \in 1..(4 * Len(items)) |->
        LET k == (j + 3) \div 4
            cur_idx == items[k].blocks * 32 + 2 * (k - 1)
            p == get_pixel(img, items[k].x, items[k].y)
        IN  CASE j % 4 = 1 -> <<cur_idx, p[4]>>
              [] j % 4 = 2 -> <<cur_idx + 1, p[1]>>
              [] j % 4 = 3 -> <<cur_idx + 32, p[3]>>
              [] OTHER     -> <<cur_idx + 33, p[2]>>]

Argb8888Writes(img, items) ==
    [j \in 1..(4 * Len(items)) |->
        LET k == (j + 3) \div 4
            cur_idx == items[k].blocks * 32 + 2 * (k - 1)
            p == get_pixel(img, items[k].x, items[k].y)
        IN  CASE j % 4 = 1 -> <<cur_idx, p[4]>>
              [] j % 4 = 2 -> <<cur_idx + 1, p[1]>>
              [] j % 4 = 3 -> <<cur_idx + 32, p[2]>>
              [] OTHER     -> <<cur_idx + 33, p[3]>>]

\* vec![0u8; dest_size] after the assignments: the last one to an index wins
ApplyWrites(dest_size, writes) ==
    [d \in 1..dest_size |->
        LET js == {j \in 1..Len(writes) : writes[j][1] = d - 1}
        IN  IF js = {} THEN 0 ELSE writes[SetMax(js)][2]]

encode_pixels_argb8888(img) ==
    LET items == PixelBlockItems(img.width, img.height, 4, 4)
        writes == Argb8888Writes(img, items)
    IN  IF \/ \E k \in 1..Len(items) : GetPixelPanics(items[k], img)
           \/ \E j \in 1..Len(writes) : writes[j][1] >= img.width * img.height * 4
        THEN [res |-> "Panic", data |-> <<>>, writes |-> <<>>]
        ELSE [res |-> "Ok", data |-> ApplyWrites(img.width * img.height * 4, writes),
              writes |-> writes]

\* an image whose channels take every byte value as seed runs over 0..255
SeedImage(width, height, seed) ==
    [width |-> width, height |-> height,
     pixels |-> [i \in 0..(width * height - 1) |->
                   << (seed + i) % 256, (3 * seed + 5 * i) % 256,
                      (255 - seed + 7 * i) % 256, (7 * seed + 11 * i) % 256 >>]]

PixelCalls ==
    [done : {TRUE}, fn : {"rgb565"},
     image : {SeedImage(sz[1], sz[2], seed) :
                sz \in {<<4, 4>>, <<8, 4>>, <<2, 2>>}, seed \in 0..255}]
    \cup [done : {TRUE}, fn : {"argb8888"},
          image : {SeedImage(sz[1], sz[2], seed) :
                     sz \in {<<4, 4>>, <<8, 4>>, <<4, 8>>, <<8, 8>>, <<2, 2>>},
                     seed \in {0, 37, 101, 255}}]

encode_pixels_rgb565_call ==
    /\ cin.fn = "rgb565" /\ ~cout.done
    /\ \E r \in {encode_pixels_rgb565(cin.image)} :
           cout' = [done |-> TRUE, stage |-> "encoded", res |-> r.res, data |-> r.data]
    /\ UNCHANGED <<cin, encVars, decVars>>

decode_pixels_rgb565_call ==
    /\ cin.fn = "rgb565" /\ cout.done /\ cout.stage = "encoded" /\ cout.res = "Ok"
    /\ cout' = [done |-> TRUE, stage |-> "decoded", res |-> cout.res, data |-> cout.data,
                image |-> decode_pixels_rgb565(cout.data, cin.image.width,
                                               cin.image.height)]
    /\ UNCHANGED <<cin, encVars, decVars>>

encode_pixels_argb8888_call ==
    /\ cin.fn = "argb8888" /\ ~cout.done
    /\ \E r \in {encode_pixels_argb8888(cin.image)} :
           cout' = [done |-> TRUE, stage |-> "encoded", res |-> r.res, data |-> r.data,
                    writes |-> r.writes]
    /\ UNCHANGED <<cin, encVars, decVars>>

decode_pixels_argb8888_call ==
    /\ cin.fn = "argb8888" /\ cout.done /\ cout.stage = "encoded" /\ cout.res = "Ok"
    /\ cout' = [done |-> TRUE, stage |-> "decoded", res |-> cout.res, data |-> cout.data,
                writes |-> cout.writes,
                image |-> decode_pixels_argb8888(cout.data, cin.image.width,
                                                 cin.image.height)]
    /\ UNCHANGED <<cin, encVars, decVars>>

NextPixel ==
    \/ encode_pixels_rgb565_call
    \/ decode_pixels_rgb565_call
    \/ encode_pixels_argb8888_call
    \/ decode_pixels_argb8888_call

SpecPixel == InitCodec(PixelCalls) /\ [][NextPixel]_vars

(***************************************************************************)
(* Block compression (pixel_codecs.rs)                                     *)
(***************************************************************************)
\* distance_bc1: both arguments are byte sequences, the offsets count from 0
distance_bc1(color_1, offset_1, color_2, offset_2) ==
    (At(color_1, offset_1) - At(color_2, offset_2))
        * (At(color_1, offset_1) - At(color_2, offset_2))
    + (At(color_1, offset_1 + 1) - At(color_2, offset_2 + 1))
        * (At(color_1, offset_1 + 1) - At(color_2, offset_2 + 1))
    + (At(color_1, offset_1 + 2) - At(color_2, offset_2 + 2))
        * (At(color_1, offset_1 + 2) - At(color_2, offset_2 + 2))

least_distance_bc1_by_position(palette, color, offset) == (offset \div 4) % 4

LeastScan_last_of_ties(palette, color, offset, i, dist, best) ==
    LET valid == {k \in 0..(Len(palette) - 1) : \A m \in 0..k : palette[m + 1][4] = 255}
        least == SetMin({distance_bc1(palette[k + 1], 0, color, offset) : k \in valid})
    IN  IF valid = {} THEN best
        ELSE SetMax({k \in valid : distance_bc1(palette[k + 1], 0, color, offset) = least})

\* the loop of least_distance_bc1 from entry i on: for (i, c) in
\* palette.iter().enumerate(), with the break at an entry whose alpha is not
\* 0xff and the return at a distance of 0
RECURSIVE LeastScan(_, _, _, _, _, _)
LeastScan(palette, color, offset, i, dist, best) ==
    IF i >= Len(palette) THEN best
    ELSE IF palette[i + 1][4] # 255 THEN best
    ELSE LET temp == distance_bc1(palette[i + 1], 0, color, offset)
         IN  IF temp < dist
             THEN IF temp = 0 THEN i
                  ELSE LeastScan(palette, color, offset, i + 1, temp, i)
             ELSE LeastScan(palette, color, offset, i + 1, dist, best)

\* least_distance_bc1: dist starts at i32::MAX, best at 0
least_distance_bc1(palette, color, offset) ==
    IF At(color, offset + 3) < 8 THEN 3
    ELSE LeastScan(palette, color, offset, 0, 2147483647, 0)

\* the inner loop for j in (i + 1)..16, for an i below 15: the assignments
\* leave the first j of largest distance, when that distance exceeds the
\* one found so far; st.dist = -1 stands for None
PairScanJ(block, i, st) ==
    LET far == SetMax({distance_bc1(block, i * 4, block, j * 4) : j \in (i + 1)..15})
    IN  IF far > st.dist
        THEN [st EXCEPT !.dist = far, !.col_1 = i,
                        !.col_2 = SetMin({j \in (i + 1)..15 :
                                            distance_bc1(block, i * 4, block, j * 4) = far})]
        ELSE st

\* the outer loop for i in 0..15
RECURSIVE PairScanI(_, _, _)
PairScanI(block, i, st) ==
    IF i >= 15 THEN st
    ELSE PairScanI(block, i + 1,
                   IF At(block, i * 4 + 3) < 16 THEN [st EXCEPT !.alpha = TRUE]
                   ELSE PairScanJ(block, i, st))

\* the two reference colours pushed to palette, before any adjustment
ReferenceColors(block, st) ==
    IF st.dist = -1
    THEN << <<0, 0, 0, 255>>, <<255, 255, 255, 255>> >>
    ELSE << << At(block, st.col_1 * 4), At(block, st.col_1 * 4 + 1),
               At(block, st.col_1 * 4 + 2), 255 >>,
            << At(block, st.col_2 * 4), At(block, st.col_2 * 4 + 1),
               At(block, st.col_2 * 4 + 2), 255 >> >>

AdjustEqual_white_unless_zero(st, ref) ==
    IF /\ st.dist # -1
       /\ ref[1][1] \div 8 = ref[2][1] \div 8
       /\ ref[1][2] \div 4 = ref[2][2] \div 4
       /\ ref[1][3] \div 8 = ref[2][3] \div 8
    THEN IF ref[1][1] \div 8 = 0 /\ ref[1][2] \div 4 = 0 /\ ref[1][3] \div 8 = 0
         THEN << ref[1], <<0, 0, 0, 255>> >>
         ELSE << ref[1], <<255, 255, 255, 255>> >>
    ELSE ref

AdjustEqual_never(st, ref) == ref

\* two reference colours that are equal in 5-6-5: the second becomes white
\* when the first is black in 5-6-5, else black
AdjustEqual(st, ref) ==
    IF /\ st.dist # -1
       /\ ref[1][1] \div 8 = ref[2][1] \div 8
       /\ ref[1][2] \div 4 = ref[2][2] \div 4
       /\ ref[1][3] \div 8 = ref[2][3] \div 8
    THEN IF ref[1][1] \div 8 = 0 /\ ref[1][2] \div 4 = 0 /\ ref[1][3] \div 8 = 0
         THEN << ref[1], <<255, 255, 255, 255>> >>
         ELSE << ref[1], <<0, 0, 0, 255>> >>
    ELSE ref

\* result[0], result[1] of a palette entry: its 5-6-5 value, high byte first
Bc1Color(c) ==
    << (c[3] \div 8) * 8 + (c[2] \div 32), ((c[2] \div 4) % 8) * 32 + (c[1] \div 8) >>

SwapNeeded_when_unequal_to_flag(c0, c1, alpha) ==
    (c0[1] > c1[1] \/ (c0[1] = c1[1] /\ c0[2] >= c1[2])) # alpha

\* the swap of the two reference colours
SwapNeeded(c0, c1, alpha) ==
    (c0[1] > c1[1] \/ (c0[1] = c1[1] /\ c0[2] >= c1[2])) = alpha

\* palette[2] and palette[3]
DerivedColors(p0, p1, alpha) ==
    IF ~alpha
    THEN << << (p0[1] * 2 + p1[1]) \div 3, (p0[2] * 2 + p1[2]) \div 3,
               (p0[3] * 2 + p1[3]) \div 3, 255 >>,
            << (p0[1] + p1[1] * 2) \div 3, (p0[2] + p1[2] * 2) \div 3,
               (p0[3] + p1[3] * 2) \div 3, 255 >> >>
    ELSE << << (p0[1] + p1[1]) \div 2, (p0[2] + p1[2]) \div 2,
               (p0[3] + p1[3]) \div 2, 255 >>,
            <<0, 0, 0, 0>> >>

\* result[4 + i]
IndexByte(palette, block, i) ==
    least_distance_bc1(palette, block, i * 16) * 64
    + least_distance_bc1(palette, block, i * 16 + 4) * 16
    + least_distance_bc1(palette, block, i * 16 + 8) * 4
    + least_distance_bc1(palette, block, i * 16 + 12)

\* the rest of compress_block_to_bc1 once the pair scan st and the adjusted
\* reference colours ref are known
Bc1Emit(block, st, ref) ==
    LET swap == SwapNeeded(Bc1Color(ref[1]), Bc1Color(ref[2]), st.alpha)
        p0 == IF swap THEN ref[2] ELSE ref[1]
        p1 == IF swap THEN ref[1] ELSE ref[2]
        palette == <<p0, p1>> \o DerivedColors(p0, p1, st.alpha)
    IN  [result |-> Bc1Color(p0) \o Bc1Color(p1)
                    \o [i \in 1..(Len(block) \div 16) |->
                          IndexByte(palette, block, i - 1)],
         alpha |-> st.alpha, dist |-> st.dist, col_1 |-> st.col_1, col_2 |-> st.col_2,
         reference |-> ReferenceColors(block, st), adjusted |-> ref, swapped |-> swap,
         palette |-> palette]

\* compress_block_to_bc1: the eight bytes returned, with the locals the
\* function computes on the way
compress_block_to_bc1(block) ==
    LET st == PairScanI(block, 0, [dist |-> -1, col_1 |-> 0, col_2 |-> 0,
                                   alpha |-> FALSE])
    IN  Bc1Emit(block, st, AdjustEqual(st, ReferenceColors(block, st)))

RECURSIVE AppendBlocks(_, _, _)
\* dest.append(&mut compress_block_to_bc1(&block)) for the blocks lo..hi,
\* in order
AppendBlocks(blocks, lo, hi) ==
    IF lo > hi THEN <<>>
    ELSE IF lo = hi THEN compress_block_to_bc1(blocks[lo].block).result
    ELSE AppendBlocks(blocks, lo, (lo + hi) \div 2)
         \o AppendBlocks(blocks, (lo + hi) \div 2 + 1, hi)

\* if dest.len() < 32 { dest.resize(32, 0) }
Pad32(dest) == IF Len(dest) < 32 THEN dest \o Zeros(32 - Len(dest)) ELSE dest

encode_pixels_dxt1(img) ==
    [res |-> "Ok", data |-> Pad32(AppendBlocks(EncodeDxtBlocks(img), 1, Len(EncodeDxtBlocks(img))))]

\* a 4x4 image of one colour
UniformImage(c) == [width |-> 4, height |-> 4, pixels |-> [i \in 0..15 |-> c]]

\* a block as EncodeDxtBlockIterator yields it (b, g, r, a per pixel) whose
\* pixels differ in colour; the pixels at the positions in low have alpha
\* low_alpha, the others are opaque
PatternBlock(low, low_alpha, seed) ==
    [k \in 1..64 |->
        LET i == (k - 1) \div 4
        IN  CASE k % 4 = 1 -> (seed + 16 * i) % 256
              [] k % 4 = 2 -> (3 * seed + 7 * i) % 256
              [] k % 4 = 3 -> (255 - 13 * i) % 256
              [] OTHER     -> IF i \in low THEN low_alpha ELSE 255]

\* a block as EncodeDxtBlockIterator yields it whose pixels take the
\* colours c[1], c[2], c[3] (each r, g, b) in turn; the pixels at the
\* positions in low have alpha low_alpha, the others are opaque
MixedBlock(c, low, low_alpha) ==
    [k \in 1..64 |->
        LET i == (k - 1) \div 4
        IN  IF k % 4 = 0 THEN IF i \in low THEN low_alpha ELSE 255
            ELSE c[(i % 3) + 1][4 - (k % 4)]]

\* a 4x4 image whose pixels differ in colour, with alpha low_alpha at the
\* positions in low
PatternImage(low, low_alpha, seed) ==
    [width |-> 4, height |-> 4,
     pixels |-> [i \in 0..15 |->
                   << (255 - 13 * i) % 256, (3 * seed + 7 * i) % 256,
                      (seed + 16 * i) % 256, IF i \in low THEN low_alpha ELSE 255 >>]]

Bc1Calls ==
    [done : {TRUE}, fn : {"dxt1"},
     image : {UniformImage(<<r, g, b, a>>) :
                r \in {0, 5, 130, 255}, g \in {0, 5, 130, 255}, b \in {0, 5, 130, 255},
                a \in {0, 7, 8, 15, 16, 255}}
             \cup {PatternImage(low, low_alpha, seed) :
                     low \in {{i} : i \in 0..15} \cup {{}, {0, 15}, {3, 9}, 0..14, 0..15},
                     low_alpha \in {0, 7, 8}, seed \in {0, 50}}]
    \cup [done : {TRUE}, fn : {"compress_block_to_bc1"},
          block : {PatternBlock(low, low_alpha, seed) :
                     low \in {{}, {15}, {0}, {7}, {0, 15}, 1..15, 0..14, 0..15, 2..15,
                              0..13, {14, 15}},
                     low_alpha \in {0, 7, 8, 15}, seed \in {0, 50, 200}}
                  \cup {MixedBlock(c, low, low_alpha) :
                          c \in {<< <<0, 0, 0>>, <<0, 0, 0>>, <<0, 0, 0>> >>,
                                 << <<7, 3, 7>>, <<7, 3, 7>>, <<7, 3, 7>> >>,
                                 << <<7, 3, 7>>, <<0, 0, 0>>, <<5, 1, 2>> >>,
                                 << <<8, 8, 8>>, <<9, 9, 9>>, <<8, 9, 8>> >>,
                                 << <<130, 5, 255>>, <<130, 5, 255>>, <<130, 5, 255>> >>,
                                 << <<255, 255, 255>>, <<255, 255, 255>>, <<255, 255, 255>> >>,
                                 << <<7, 0, 0>>, <<8, 0, 0>>, <<7, 0, 0>> >>,
                                 << <<0, 0, 0>>, <<252, 0, 0>>, <<63, 5, 0>> >>,
                                 << <<252, 0, 0>>, <<0, 0, 0>>, <<63, 5, 0>> >>,
                                 << <<0, 0, 0>>, <<255, 255, 255>>, <<128, 128, 128>> >>,
                                 << <<10, 200, 90>>, <<200, 10, 90>>, <<105, 105, 90>> >>},
                          low \in {{}, {0}, {15}, {2, 5}, 0..15},
                          low_alpha \in {0, 8}}]

compress_block_to_bc1_call ==
    /\ cin.fn = "compress_block_to_bc1" /\ ~cout.done
    /\ cout' = [done |-> TRUE, stage |-> "compressed",
                bc1 |-> compress_block_to_bc1(cin.block)]
    /\ UNCHANGED <<cin, encVars, decVars>>

encode_pixels_dxt1_call ==
    /\ cin.fn = "dxt1" /\ ~cout.done
    /\ \E r \in {encode_pixels_dxt1(cin.image)} :
           cout' = [done |-> TRUE, stage |-> "encoded", res |-> r.res, data |-> r.data]
    /\ UNCHANGED <<cin, encVars, decVars>>

decode_pixels_dxt1_call ==
    /\ cin.fn = "dxt1" /\ cout.done /\ cout.stage = "encoded" /\ cout.res = "Ok"
    /\ cout' = [done |-> TRUE, stage |-> "decoded", res |-> cout.res, data |-> cout.data,
                image |-> decode_pixels_dxt1(cout.data, cin.image.width,
                                             cin.image.height)]
    /\ UNCHANGED <<cin, encVars, decVars>>

NextBc1 ==
    \/ compress_block_to_bc1_call
    \/ encode_pixels_dxt1_call
    \/ decode_pixels_dxt1_call

SpecBc1 == InitCodec(Bc1Calls) /\ [][NextBc1]_vars

(***************************************************************************)
(* Palettized encoders (pixel_codecs.rs)                                   *)
(***************************************************************************)
\* encode_pixel_intensity_alpha8: (pixel, alpha).  The f32 sum truncates to
\* this quotient whenever 30r + 59g + 11b is zero or not a multiple of 100,
\* which holds for every colour given to it here.
encode_pixel_intensity_alpha8(p) ==
    << (30 * p[1] + 59 * p[2] + 11 * p[3]) \div 100, p[4] >>

\* the two bytes encode_palette pushes for one colour
encode_palette_color(color, palette_pixel_format) ==
    CASE palette_pixel_format = "RGB5A3" ->
            << encode_pixel_rgb5a3(color) \div 256, encode_pixel_rgb5a3(color) % 256 >>
      [] palette_pixel_format = "RGB565" ->
            << encode_pixel_rgb565(color) \div 256, encode_pixel_rgb565(color) % 256 >>
      [] palette_pixel_format = "IntensityA8" ->
            << encode_pixel_intensity_alpha8(color)[2],
               encode_pixel_intensity_alpha8(color)[1] >>

encode_palette(palette, palette_pixel_format) ==
    [j \in 1..(2 * Len(palette)) |->
        encode_palette_color(palette[(j + 1) \div 2], palette_pixel_format)[2 - (j % 2)]]

\* Vec::resize(new_len, value)
VecResize(v, new_len, value) ==
    [k \in 1..new_len |-> IF k <= Len(v) THEN v[k] ELSE value]

palettize_image_unpadded(quantized, max_colors) ==
    [res |-> quantized.res, palette |-> quantized.palette, indices |-> quantized.indices]

\* palettize_image: quantized is what imagequant answers for the image, a
\* palette and one index per pixel, or an error
palettize_image(quantized, max_colors) ==
    IF quantized.res # "Ok"
    THEN [res |-> quantized.res, palette |-> <<>>, indices |-> <<>>]
    ELSE [res |-> "Ok",
          palette |-> IF Len(quantized.palette) # max_colors
                      THEN VecResize(quantized.palette, max_colors, <<0, 0, 0, 0>>)
                      ELSE quantized.palette,
          indices |-> quantized.indices]

\* the pushes of indices[src_idx] after the palette; indices[..] panics
\* past the end
Index8Stream(pal, items, width, indices) ==
    IF \E k \in 1..Len(items) : items[k].y * width + items[k].x >= Len(indices)
    THEN [res |-> "Panic", data |-> <<>>, palette |-> <<>>]
    ELSE [res |-> "Ok",
          data |-> pal \o [k \in 1..Len(items) |->
                             At(indices, items[k].y * width + items[k].x)],
          palette |-> <<>>]

encode_pixels_with_palette_index8(width, height, quantized, palette_pixel_format) ==
    LET pi == palettize_image(quantized, INDEX8_PALETTE_SIZE)
        stream == Index8Stream(encode_palette(pi.palette, palette_pixel_format),
                               PixelBlockItems(width, height, 8, 4), width, pi.indices)
    IN  IF pi.res # "Ok" THEN [res |-> pi.res, data |-> <<>>, palette |-> <<>>]
        ELSE [stream EXCEPT !.palette = IF stream.res = "Ok" THEN pi.palette ELSE <<>>]

RECURSIVE BitOr(_, _)
\* a | b
BitOr(a, b) ==
    IF a = 0 THEN b
    ELSE IF b = 0 THEN a
    ELSE (IF a % 2 = 1 \/ b % 2 = 1 THEN 1 ELSE 0) + 2 * BitOr(a \div 2, b \div 2)

NibbleShifted_low_only(v, col) == v % 16

\* (v & 0xF) << ((!col & 0x1) * 4): the high nibble for an even column
NibbleShifted(v, col) == IF col % 2 = 0 THEN (v % 16) * 16 ELSE v % 16

\* a vector of size zeros after dest[idx / 2] |= (sample & 0xF) << .. for
\* every item, idx counting the items from 0: byte d takes the items 2d and
\* 2d + 1
OrNibbles(size, items, sample) ==
    [d \in 1..size |->
        BitOr(IF 2 * d - 1 > Len(items) THEN 0
              ELSE NibbleShifted(sample[2 * d - 1], items[2 * d - 1].col),
              IF 2 * d > Len(items) THEN 0
              ELSE NibbleShifted(sample[2 * d], items[2 * d].col))]

\* the index loop of encode_pixels_with_palette_index4 after the palette pal:
\* result[cur_len + dest_idx / 2] |= (indices[src_idx] & 0xF) << ..  for
\* every item, on the zeros result.resize appended
Index4Stream(pal, items, width, height, indices) ==
    IF \E k \in 1..Len(items) :
          \/ items[k].y * width + items[k].x >= Len(indices)
          \/ (k - 1) \div 2 >= (width * height) \div 2
    THEN [res |-> "Panic", data |-> <<>>, palette |-> <<>>]
    ELSE [res |-> "Ok",
          data |-> pal \o
            OrNibbles((width * height) \div 2, items,
                      [k \in 1..Len(items) |->
                         At(indices, items[k].y * width + items[k].x)]),
          palette |-> <<>>]

encode_pixels_with_palette_index4(width, height, quantized, palette_pixel_format) ==
    LET pi == palettize_image(quantized, INDEX4_PALETTE_SIZE)
        stream == Index4Stream(encode_palette(pi.palette, palette_pixel_format),
                               PixelBlockItems(width, height, 8, 8), width, height,
                               pi.indices)
    IN  IF pi.res # "Ok" THEN [res |-> pi.res, data |-> <<>>, palette |-> <<>>]
        ELSE [stream EXCEPT !.palette = IF stream.res = "Ok" THEN pi.palette ELSE <<>>]

\* an answer of the quantizer with n colours for an image of the given
\* number of pixels: n distinct colours, none of them (0, 0, 0, 0)
Quantized(n, len) ==
    [res |-> "Ok",
     palette |-> [k \in 1..n |-> << (7 * k) % 256, (13 * k + 5) % 256, (3 * k + 2) % 256,
                                    255 - 40 * (k % 3) >>],
     indices |-> [i \in 1..len |-> (5 * i) % n]]

QuantError == [res |-> "Quantize", palette |-> <<>>, indices |-> <<>>]

PaletteCalls ==
    [done : {TRUE}, fn : {"index4"}, palette_pixel_format : PixelFormats,
     width : {8}, height : {8},
     quantized : {Quantized(n, 64) : n \in 1..INDEX4_PALETTE_SIZE} \cup {QuantError}]
    \cup [done : {TRUE}, fn : {"index8"}, palette_pixel_format : PixelFormats,
          width : {8}, height : {4},
          quantized : {Quantized(n, 32) : n \in 1..INDEX8_PALETTE_SIZE} \cup {QuantError}]

encode_pixels_with_palette_index4_call ==
    /\ cin.fn = "index4" /\ ~cout.done
    /\ \E r \in {encode_pixels_with_palette_index4(cin.width, cin.height, cin.quantized,
                                                  cin.palette_pixel_format)} :
           cout' = [done |-> TRUE, stage |-> "encoded", res |-> r.res, data |-> r.data,
                    palette |-> r.palette]
    /\ UNCHANGED <<cin, encVars, decVars>>

encode_pixels_with_palette_index8_call ==
    /\ cin.fn = "index8" /\ ~cout.done
    /\ \E r \in {encode_pixels_with_palette_index8(cin.width, cin.height, cin.quantized,
                                                  cin.palette_pixel_format)} :
           cout' = [done |-> TRUE, stage |-> "encoded", res |-> r.res, data |-> r.data,
                    palette |-> r.palette]
    /\ UNCHANGED <<cin, encVars, decVars>>

NextPalette ==
    \/ encode_pixels_with_palette_index4_call
    \/ encode_pixels_with_palette_index8_call

SpecPalette == InitCodec(PaletteCalls) /\ [][NextPalette]_vars

(***************************************************************************)
(* The 4-bit formats: Intensity4 and Index4 (pixel_codecs.rs)              *)
(***************************************************************************)
\* ((0.30 r + 0.59 g + 0.11 b) * 15. / 255.) as u8, in exact arithmetic
encode_pixel_intensity_4(p) ==
    ((30 * p[1] + 59 * p[2] + 11 * p[3]) * 15) \div 25500

encode_pixels_intensity_4(img) ==
    LET items == PixelBlockItems(img.width, img.height, 8, 8)
        dest_size == (img.width * img.height) \div 2
    IN  IF \E k \in 1..Len(items) :
              GetPixelPanics(items[k], img) \/ (k - 1) \div 2 >= dest_size
        THEN [res |-> "Panic", data |-> <<>>]
        ELSE [res |-> "Ok",
              data |-> OrNibbles(dest_size, items,
                                 [k \in 1..Len(items) |->
                                    encode_pixel_intensity_4(
                                        get_pixel(img, items[k].x, items[k].y))])]

\* a grey image whose neighbouring pixels differ in their 4-bit intensity;
\* no channel is a multiple of 17, where the f32 product could round down
GreyImage(width, height, seed) ==
    [width |-> width, height |-> height,
     pixels |-> [i \in 0..(width * height - 1) |->
                   LET v == 17 * ((7 * i + seed + (i \div width)) % 16) + 8
                   IN  <<v, v, v, 255>>]]

NibbleCalls ==
    [done : {TRUE}, fn : {"intensity4"},
     image : {GreyImage(sz[1], sz[2], seed) :
                sz \in {<<8, 8>>, <<16, 8>>, <<8, 16>>, <<16, 16>>}, seed \in 0..7}]
    \cup UNION {[done : {TRUE}, fn : {"index4"}, palette_pixel_format : PixelFormats,
                 width : {sz[1]}, height : {sz[2]},
                 quantized : {Quantized(n, sz[1] * sz[2]) : n \in {1, 2, 5, 11, 16}}] :
                  sz \in {<<8, 8>>, <<16, 8>>, <<8, 16>>, <<16, 16>>}}

encode_pixels_intensity_4_call ==
    /\ cin.fn = "intensity4" /\ ~cout.done
    /\ \E r \in {encode_pixels_intensity_4(cin.image)} :
           cout' = [done |-> TRUE, stage |-> "encoded", res |-> r.res, data |-> r.data]
    /\ UNCHANGED <<cin, encVars, decVars>>

decode_pixels_intensity_4_call ==
    /\ cin.fn = "intensity4" /\ cout.done /\ cout.stage = "encoded" /\ cout.res = "Ok"
    /\ cout' = [done |-> TRUE, stage |-> "decoded", res |-> cout.res, data |-> cout.data,
                image |-> decode_pixels_intensity_4(cout.data, cin.image.width,
                                                    cin.image.height)]
    /\ UNCHANGED <<cin, encVars, decVars>>

decode_pixels_with_palette_index4_call ==
    /\ cin.fn = "index4" /\ cout.done /\ cout.stage = "encoded" /\ cout.res = "Ok"
    /\ cout' = [done |-> TRUE, stage |-> "decoded", res |-> cout.res, data |-> cout.data,
                palette |-> cout.palette,
                image |-> decode_pixels_with_palette_index4(
                              cout.data, cin.width, cin.height, cin.palette_pixel_format)]
    /\ UNCHANGED <<cin, encVars, decVars>>

NextNibble ==
    \/ encode_pixels_intensity_4_call
    \/ decode_pixels_intensity_4_call
    \/ encode_pixels_with_palette_index4_call
    \/ decode_pixels_with_palette_index4_call

SpecNibble == InitCodec(NibbleCalls) /\ [][NextNibble]_vars

(***************************************************************************)
(* Mipmaps (lib.rs)                                                        *)
(***************************************************************************)
\* u32::ilog2 of a positive number
ilog2(n) == CHOOSE k \in 0..31 : 2 ^ k <= n /\ (k = 31 \/ n < 2 ^ (k + 1))

\* DynamicImage::resize_exact(nwidth, nheight, FilterType::Triangle) of an
\* image of one colour: every weighted mean of equal pixels is that colour
resize_exact(img, nwidth, nheight) ==
    [width |-> nwidth, height |-> nheight,
     pixels |-> [i \in 0..(nwidth * nheight - 1) |-> img.pixels[0]]]

\* the encoder of a format that allows mipmaps
encode_mipmap_image(data_format, img) ==
    CASE data_format = "Rgb5a3" -> encode_pixels_rgb5a3(img)
      [] data_format = "Rgb565" -> encode_pixels_rgb565(img)
      [] data_format = "Dxt1" -> encode_pixels_dxt1(img)
      [] OTHER -> [res |-> "Panic", data |-> <<>>]

\* the sides tex_size takes in the loop of encode_mipmaps
MipmapSides(width) ==
    [n \in {m \in 1..ilog2(width) : width \div (2 ^ m) >= 1} |-> width \div (2 ^ n)]

RECURSIVE Flatten(_, _)
\* mipmaps.append(&mut encoded) for the levels from k on
Flatten(levels, k) ==
    IF k > Len(levels) THEN <<>> ELSE levels[k].data \o Flatten(levels, k + 1)

\* encode_mipmaps: the levels in the order they are appended; a level that
\* panics in its encoder ends the call
encode_mipmaps(data_format, img) ==
    LET sides == MipmapSides(img.width)
        encoded == [n \in DOMAIN sides |->
                      encode_mipmap_image(data_format,
                                          resize_exact(img, sides[n], sides[n]))]
    IN  IF \E n \in DOMAIN sides : encoded[n].res = "Panic"
        THEN [res |-> "Panic", levels |-> <<>>]
        ELSE [res |-> "Ok",
              levels |-> [n \in DOMAIN sides |->
                            [side |-> sides[n], data |-> Pad32(encoded[n].data)]]]

\* encode without a palette and with the Mipmaps flag, for an image that
\* passed validate_input: the payload handed to write_header
EncodeWithMipmaps(data_format, img) ==
    LET mipmaps == encode_mipmaps(data_format, img)
        base == encode_mipmap_image(data_format, img)
    IN  IF mipmaps.res = "Panic"
        THEN [res |-> "Panic", base |-> <<>>, levels |-> <<>>, data |-> <<>>]
        ELSE [res |-> "Ok", base |-> base.data, levels |-> mipmaps.levels,
              data |-> base.data \o Flatten(mipmaps.levels, 1)]

MipmapCalls ==
    [done : {TRUE}, fn : {"encode"}, data_format : MipmapFormats,
     image : {[width |-> sz[1], height |-> sz[2],
               pixels |-> [i \in 0..(sz[1] * sz[2] - 1) |-> c]] :
                sz \in {<<4, 4>>, <<8, 8>>, <<16, 8>>, <<8, 16>>, <<16, 16>>,
                        <<24, 8>>, <<32, 32>>, <<64, 64>>},
                c \in {<<0, 0, 0, 255>>, <<255, 128, 3, 255>>, <<10, 200, 90, 100>>,
                       <<77, 77, 77, 0>>, <<1, 2, 3, 9>>}}]

encode_with_mipmaps_call ==
    /\ cin.fn = "encode" /\ ~cout.done
    /\ \E r \in {EncodeWithMipmaps(cin.data_format, cin.image)} :
           cout' = [done |-> TRUE, stage |-> "encoded", res |-> r.res, base |-> r.base,
                    levels |-> r.levels, data |-> r.data]
    /\ UNCHANGED <<cin, encVars, decVars>>

NextMipmaps == encode_with_mipmaps_call

SpecMipmaps == InitCodec(MipmapCalls) /\ [][NextMipmaps]_vars

(***************************************************************************)
(* Claims about the iterators                                              *)
(***************************************************************************)
PixelIterCall == cout.done /\ cin.fn \in {"PixelBlockIterator", "PixelBlockIteratorExt"}

DxtIterCall == cout.done /\ cin.fn \in {"EncodeDxtBlockIterator", "DecodeDxtBlockIterator"}

\* C16: for a block size (4,4), (8,4) or (8,8) and an image whose width and
\* height are multiples of it, the k-th item of PixelBlockIterator (k from 0)
\* is, with b = k div (bx*by) and i = k mod (bx*by), the point
\* x = (b mod (W/bx))*bx + (i mod bx), y = (b div (W/bx))*by + (i div bx);
\* PixelBlockIteratorExt yields the same point with block count b and
\* column i mod bx.
C16_BlockOrder ==
    (/\ PixelIterCall
     /\ cin.width > 0 /\ cin.width % cin.bs[1] = 0
     /\ cin.height > 0 /\ cin.height % cin.bs[2] = 0)
    => \A k \in 0..(Len(cout.items) - 1) :
          LET bx == cin.bs[1]
              by == cin.bs[2]
              b == k \div (bx * by)
              i == k % (bx * by)
              item == cout.items[k + 1]
          IN  /\ item.x = (b % (cin.width \div bx)) * bx + (i % bx)
              /\ item.y = (b \div (cin.width \div bx)) * by + (i \div bx)
              /\ cin.fn = "PixelBlockIteratorExt"
                    => item.blocks = b /\ item.col = i % bx

C16_Witness ==
    /\ PixelIterCall /\ cin.fn = "PixelBlockIteratorExt"
    /\ cin.width = 16 /\ cin.height = 8 /\ cin.bs = <<8, 4>>
    /\ Len(cout.items) = 128
    /\ cout.items[33] = [blocks |-> 1, col |-> 0, x |-> 8, y |-> 0]
    /\ cout.items[65] = [blocks |-> 2, col |-> 0, x |-> 0, y |-> 4]

\* C17: for every width, every height and every block size, a fresh
\* PixelBlockIterator and a fresh PixelBlockIteratorExt each yield exactly
\* width * height items and then return None.
C17_ItemCount ==
    PixelIterCall => Len(cout.items) = cin.width * cin.height

\* the 8x8 super-tile the g-th group of four items starts at (g from 0)
TileOrigin(items, g) == [x |-> items[4 * g + 1].x, y |-> items[4 * g + 1].y]

Origins(items) == [k \in 1..Len(items) |-> [x |-> items[k].x, y |-> items[k].y]]

\* C18: for every width and height, EncodeDxtBlockIterator and
\* DecodeDxtBlockIterator visit the 8x8 super-tiles of the image row by row
\* from the top left, within each super-tile at (X, Y) the four 4x4 blocks
\* at (X, Y), (X+4, Y), (X, Y+4), (X+4, Y+4) in that order, and then stop;
\* the two iterators produce the same sequence of origins.
C18_DxtOrder ==
    DxtIterCall =>
      LET items == Origins(cout.items)
          groups == Len(items) \div 4
      IN  /\ Len(items) % 4 = 0
          /\ \A g \in 0..(groups - 1) :
                LET t == TileOrigin(items, g)
                IN  /\ t.x % 8 = 0 /\ t.y % 8 = 0
                    /\ t.y < cin.height /\ (t.x < cin.width \/ t.x = 0)
                    /\ items[4 * g + 2] = [x |-> t.x + 4, y |-> t.y]
                    /\ items[4 * g + 3] = [x |-> t.x, y |-> t.y + 4]
                    /\ items[4 * g + 4] = [x |-> t.x + 4, y |-> t.y + 4]
                    /\ g = 0 => t = [x |-> 0, y |-> 0]
                    /\ g > 0 =>
                         LET u == TileOrigin(items, g - 1)
                         IN  \/ t = [x |-> u.x + 8, y |-> u.y]
                             \/ t = [x |-> 0, y |-> u.y + 8] /\ u.x + 8 >= cin.width
          /\ \A X \in 0..(cin.width - 1), Y \in 0..(cin.height - 1) :
                (X % 8 = 0 /\ Y % 8 = 0)
                => \E g \in 0..(groups - 1) : TileOrigin(items, g) = [x |-> X, y |-> Y]
          /\ items = Origins(EncodeDxtBlocks(GradientImage(cin.width, cin.height)))
          /\ items = Origins(DecodeDxtBlocks(cin.width, cin.height))

C18_Witness ==
    /\ DxtIterCall /\ cin.fn = "EncodeDxtBlockIterator"
    /\ cin.width = 12 /\ cin.height = 9
    /\ Len(cout.items) = 16
    /\ Origins(cout.items)[5] = [x |-> 8, y |-> 0]
    /\ Origins(cout.items)[9] = [x |-> 0, y |-> 8]
    /\ Origins(cout.items)[16] = [x |-> 12, y |-> 12]

\* C26: for every width and height (sizes that are not multiples of 4
\* included) and every pixel (x, y) inside the image, the position within
\* its 4x4 sub-block at which EncodeDxtBlockIterator places the pixel is the
\* position from which decode_pixels_dxt1 reads the index for (x, y): row
\* y - y0 (byte src_idx + y2), column x - x0 (bit pair 6 - 2 * x2), that is
\* pixel 4 * (y - y0) + (x - x0) of the block.
C26_DxtPixelPosition ==
    (cout.done /\ cin.fn = "EncodeDxtBlockIterator") =>
      \A k \in 1..Len(cout.items) :
         \A x2 \in 0..3, y2 \in 0..3 :
            (cout.items[k].x + x2 < cin.width /\ cout.items[k].y + y2 < cin.height) =>
               LET p == get_pixel(GradientImage(cin.width, cin.height),
                                  cout.items[k].x + x2, cout.items[k].y + y2)
               IN  SubSeq(cout.items[k].block, 4 * (4 * y2 + x2) + 1, 4 * (4 * y2 + x2) + 4)
                     = <<p[3], p[2], p[1], p[4]>>

(***************************************************************************)
(* Claims about the pixel codecs                                           *)
(***************************************************************************)
Abs(n) == IF n < 0 THEN 0 - n ELSE n

Decoded565 == cin.fn = "rgb565" /\ cout.done /\ cout.stage = "decoded"

\* C12: encoding an image as Rgb565 and decoding it again gives, for every
\* pixel, red and blue within 8 and green within 4 of the original, and
\* alpha 255.
C12_Rgb565RoundTrip ==
    Decoded565 =>
      /\ cout.image.res = "Ok"
      /\ \A i \in 0..(cin.image.width * cin.image.height - 1) :
            /\ Abs(cout.image.pixels[i][1] - cin.image.pixels[i][1]) <= 8
            /\ Abs(cout.image.pixels[i][2] - cin.image.pixels[i][2]) <= 4
            /\ Abs(cout.image.pixels[i][3] - cin.image.pixels[i][3]) <= 8
            /\ cout.image.pixels[i][4] = 255

C12_Witness ==
    /\ Decoded565
    /\ cin.image.width = 8 /\ cin.image.height = 4
    /\ cin.image.pixels[5] = <<255, 7, 40, 13>>
    /\ cout.image.pixels[5] = <<255, 4, 41, 255>>

Decoded8888 == cin.fn = "argb8888" /\ cout.done /\ cout.stage \in {"encoded", "decoded"}

\* C13: for a width and height that are multiples of 4 the Argb8888 encoder
\* writes each of the w*h*4 output bytes exactly once; pixel i of block b
\* has its alpha at 64b + 2i, its red at 64b + 2i + 1, its green at
\* 64b + 32 + 2i and its blue at 64b + 32 + 2i + 1; decode_pixels_argb8888
\* gives the original image back bit for bit.
C13_Argb8888Layout ==
    (Decoded8888 /\ cin.image.width % 4 = 0 /\ cin.image.height % 4 = 0) =>
      LET w == cin.image.width
          h == cin.image.height
      IN  /\ cout.res = "Ok"
          /\ Len(cout.data) = w * h * 4
          /\ \A d \in 0..(w * h * 4 - 1) :
                Cardinality({j \in 1..Len(cout.writes) : cout.writes[j][1] = d}) = 1
          /\ \A b \in 0..((w * h) \div 16 - 1), i \in 0..15 :
                LET p == get_pixel(cin.image, (b % (w \div 4)) * 4 + (i % 4),
                                   (b \div (w \div 4)) * 4 + (i \div 4))
                IN  /\ At(cout.data, 64 * b + 2 * i) = p[4]
                    /\ At(cout.data, 64 * b + 2 * i + 1) = p[1]
                    /\ At(cout.data, 64 * b + 32 + 2 * i) = p[2]
                    /\ At(cout.data, 64 * b + 32 + 2 * i + 1) = p[3]
          /\ cout.stage = "decoded"
                => /\ cout.image.res = "Ok"
                   /\ cout.image.pixels = cin.image.pixels

C13_Witness ==
    /\ Decoded8888 /\ cout.stage = "decoded"
    /\ cin.image.width = 8 /\ cin.image.height = 8
    /\ Len(cout.data) = 256
    /\ cout.image.pixels = cin.image.pixels
    /\ cin.image.pixels[63] # cin.image.pixels[0]

(***************************************************************************)
(* Claims about block compression                                          *)
(***************************************************************************)
UniformDecoded ==
    /\ cin.fn = "dxt1" /\ cout.done /\ cout.stage = "decoded"
    /\ \A i \in 0..15 : cin.image.pixels[i] = cin.image.pixels[0]

\* the red, green and blue a colour has after its 5-6-5 encoding
In565(c) == SubSeq(decode_pixel_rgb565(encode_pixel_rgb565(c)), 1, 3)

\* the sixteen pixels decoded from the first block are c in 5-6-5 and the
\* sixteen 2-bit indices of the block are equal
UniformReproduced(c) ==
    /\ cout.image.res = "Ok"
    /\ \A i \in 0..15 : SubSeq(cout.image.pixels[i], 1, 3) = In565(c)
    /\ \A row \in 0..3, x2 \in 0..3 :
          Crumb(At(cout.data, 4 + row), x2) = Crumb(At(cout.data, 4), 0)

\* C14 as stated: for every colour c, a 4x4 block whose sixteen pixels all
\* equal c, compressed by compress_block_to_bc1 and decoded by
\* decode_pixels_dxt1, gives sixteen pixels that each reproduce c within
\* 5-6-5 precision, and the sixteen 2-bit indices of the block are equal.
C14_UniformBlock ==
    UniformDecoded => UniformReproduced(cin.image.pixels[0])

\* C14 amended: the same for every colour c whose alpha is at least 16.
C14_UniformOpaqueBlock ==
    (UniformDecoded /\ cin.image.pixels[0][4] >= 16)
    => UniformReproduced(cin.image.pixels[0])

C14_Witness ==
    /\ UniformDecoded
    /\ cin.image.pixels[0] = <<130, 5, 255, 16>>
    /\ cout.image.pixels[15] = <<131, 4, 255, 255>>
    /\ SubSeq(cout.data, 1, 8) = <<128, 63, 0, 0, 0, 0, 0, 0>>

Compressed == cin.fn = "compress_block_to_bc1" /\ cout.done

\* the alpha of pixel i of the block given to compress_block_to_bc1
AlphaOf(i) == At(cin.block, i * 4 + 3)

\* C19: compress_block_to_bc1 flags a block as having transparency exactly
\* when at least one of its sixteen pixels (positions 0 to 15) has an alpha
\* below 16.
C19_HasTransparency ==
    Compressed => (cout.bc1.alpha <=> \E i \in 0..15 : AlphaOf(i) < 16)

\* the pairs i < j of pixels that both have an alpha of at least 16
OpaquePairs ==
    {p \in (0..15) \X (0..15) : p[1] < p[2] /\ AlphaOf(p[1]) >= 16 /\ AlphaOf(p[2]) >= 16}

\* p comes before q in scan order (i ascending, then j ascending)
ScanBefore(p, q) == p[1] < q[1] \/ (p[1] = q[1] /\ p[2] <= q[2])

\* C20: the two reference colours of compress_block_to_bc1 are the colours
\* of the pair of pixels of largest squared RGB distance among the pairs in
\* which both pixels have an alpha of at least 16, the first such pair in
\* scan order on a tie; with fewer than two such pixels they are opaque
\* black and opaque white.
C20_ReferencePair ==
    Compressed =>
      IF OpaquePairs = {}
      THEN cout.bc1.reference = << <<0, 0, 0, 255>>, <<255, 255, 255, 255>> >>
      ELSE \E p \in OpaquePairs :
             /\ \A q \in OpaquePairs :
                   \/ distance_bc1(cin.block, p[1] * 4, cin.block, p[2] * 4)
                        > distance_bc1(cin.block, q[1] * 4, cin.block, q[2] * 4)
                   \/ /\ distance_bc1(cin.block, p[1] * 4, cin.block, p[2] * 4)
                         = distance_bc1(cin.block, q[1] * 4, cin.block, q[2] * 4)
                      /\ ScanBefore(p, q)
             /\ cout.bc1.reference =
                  << << At(cin.block, p[1] * 4), At(cin.block, p[1] * 4 + 1),
                        At(cin.block, p[1] * 4 + 2), 255 >>,
                     << At(cin.block, p[2] * 4), At(cin.block, p[2] * 4 + 1),
                        At(cin.block, p[2] * 4 + 2), 255 >> >>

\* the two colours of ref have the same 5-6-5 value
Same565(ref) == Bc1Color(ref[1]) = Bc1Color(ref[2])

\* C21 as stated: in compress_block_to_bc1, whenever the two selected
\* reference colours quantize to the identical 5-6-5 value, the second is
\* replaced by pure white, except when the first quantizes to zero, in which
\* case it is replaced by pure black; in every other case both reference
\* colours are left as selected.
C21_PerturbWhiteUnlessZero ==
    Compressed =>
      IF Same565(cout.bc1.reference)
      THEN cout.bc1.adjusted
             = << cout.bc1.reference[1],
                  IF Bc1Color(cout.bc1.reference[1]) = <<0, 0>>
                  THEN <<0, 0, 0, 255>> ELSE <<255, 255, 255, 255>> >>
      ELSE cout.bc1.adjusted = cout.bc1.reference

\* C21 amended: whenever the two selected reference colours quantize to the
\* identical 5-6-5 value, the second is replaced by pure black, except when
\* the first quantizes to zero, in which case it is replaced by pure white;
\* in every other case both reference colours are left as selected.
C21_PerturbBlackUnlessZero ==
    Compressed =>
      IF Same565(cout.bc1.reference)
      THEN cout.bc1.adjusted
             = << cout.bc1.reference[1],
                  IF Bc1Color(cout.bc1.reference[1]) = <<0, 0>>
                  THEN <<255, 255, 255, 255>> ELSE <<0, 0, 0, 255>> >>
      ELSE cout.bc1.adjusted = cout.bc1.reference

C21_Witness ==
    /\ Compressed
    /\ cout.bc1.reference = << <<8, 8, 8, 255>>, <<9, 9, 9, 255>> >>
    /\ cout.bc1.adjusted = << <<8, 8, 8, 255>>, <<0, 0, 0, 255>> >>

\* the 5-6-5 encodings of the two reference colours before any swap
Color0U16 == U16BE(Bc1Color(cout.bc1.adjusted[1]), 0)
Color1U16 == U16BE(Bc1Color(cout.bc1.adjusted[2]), 0)

\* the stored colours and palette entries 0 and 1 are the reference colours
\* in swapped order if swapped, in their own order otherwise
StoredOrder(swapped) ==
    /\ SubSeq(cout.bc1.result, 1, 4)
         = IF swapped
           THEN Bc1Color(cout.bc1.adjusted[2]) \o Bc1Color(cout.bc1.adjusted[1])
           ELSE Bc1Color(cout.bc1.adjusted[1]) \o Bc1Color(cout.bc1.adjusted[2])
    /\ SubSeq(cout.bc1.palette, 1, 2)
         = IF swapped THEN <<cout.bc1.adjusted[2], cout.bc1.adjusted[1]>>
           ELSE cout.bc1.adjusted

\* C22 as stated: in compress_block_to_bc1, with color0_u16 and color1_u16
\* the 5-6-5 encodings of the two reference colours before any swap, the
\* storage order of the two colours and their palette roles are swapped
\* exactly when (color0_u16 > color1_u16) == has_transparency is false.
C22_SwapWhenConditionFalse ==
    Compressed => StoredOrder((Color0U16 > Color1U16) # cout.bc1.alpha)

\* C22 amended: the storage order of the two colours and their palette roles
\* are swapped exactly when (color0_u16 > color1_u16) == has_transparency is
\* true.
C22_SwapWhenConditionTrue ==
    Compressed => StoredOrder((Color0U16 > Color1U16) = cout.bc1.alpha)

C22_Witness ==
    /\ Compressed
    /\ cout.bc1.alpha
    /\ Color0U16 > Color1U16
    /\ cout.bc1.adjusted = << <<0, 0, 252, 255>>, <<0, 0, 0, 255>> >>
    /\ SubSeq(cout.bc1.result, 1, 4) = <<0, 0, 248, 0>>
    /\ cout.bc1.palette[1] = <<0, 0, 0, 255>>

\* the 2-bit index compress_block_to_bc1 stored for pixel p of the block
StoredIndex(p) == Crumb(At(cout.bc1.result, 4 + p \div 4), p % 4)

\* the entries of the block palette the scan reaches: those before the first
\* entry whose alpha is not 0xff
OpaqueEntries ==
    {i \in 0..3 : \A k \in 0..i : cout.bc1.palette[k + 1][4] = 255}

\* the squared RGB distance of pixel p to palette entry i
EntryDistance(i, p) == distance_bc1(cout.bc1.palette[i + 1], 0, cin.block, p * 4)

\* C23: in the BC1 index assignment, for every block palette and every
\* pixel: a pixel with alpha below 8 gets the transparent index (3)
\* regardless of colour distance; every other pixel gets the index of the
\* opaque palette entry with the smallest squared RGB distance, ties going to
\* the lowest index, and an entry at distance 0 is returned as soon as it is
\* reached.
C23_IndexAssignment ==
    Compressed =>
      \A p \in 0..15 :
         IF AlphaOf(p) < 8 THEN StoredIndex(p) = 3
         ELSE /\ StoredIndex(p) \in OpaqueEntries
              /\ \A k \in OpaqueEntries :
                    \/ EntryDistance(StoredIndex(p), p) < EntryDistance(k, p)
                    \/ /\ EntryDistance(StoredIndex(p), p) = EntryDistance(k, p)
                       /\ StoredIndex(p) <= k
              /\ \A k \in OpaqueEntries :
                    EntryDistance(k, p) = 0 => StoredIndex(p) <= k

C23_Witness ==
    /\ Compressed
    /\ AlphaOf(0) < 8 /\ StoredIndex(0) = 3 /\ EntryDistance(0, 0) = 0
    /\ \E p \in 1..15 :
          /\ AlphaOf(p) >= 8
          /\ StoredIndex(p) = 0
          /\ EntryDistance(0, p) > 0
          /\ EntryDistance(0, p) = EntryDistance(2, p)
    /\ \E p \in 1..15 : StoredIndex(p) = 1 /\ EntryDistance(1, p) = 0

\* C25: for every 4x4 block and every combination of pixel colours and
\* alphas, the sub-mode the decoder selects from the stored colours (4-colour
\* interpolation when stored color0 > color1, otherwise 3-colour plus
\* transparent) matches the encoder's flag: compress_block_to_bc1 emits
\* color0 > color1 exactly when the block is not flagged has-transparency,
\* and the two stored colours are never equal.
C25_SubModeMatchesFlag ==
    Compressed =>
      /\ (U16BE(cout.bc1.result, 0) > U16BE(cout.bc1.result, 2)) <=> ~cout.bc1.alpha
      /\ U16BE(cout.bc1.result, 0) # U16BE(cout.bc1.result, 2)
      /\ SubSeq(DxtColors(U16BE(cout.bc1.result, 0), U16BE(cout.bc1.result, 2)), 3, 4)
           = DerivedColors(decode_pixel_rgb565(U16BE(cout.bc1.result, 0)),
                           decode_pixel_rgb565(U16BE(cout.bc1.result, 2)),
                           cout.bc1.alpha)

C25_Witness ==
    /\ Compressed
    /\ Same565(cout.bc1.reference)
    /\ cout.bc1.dist # -1
    /\ ~cout.bc1.alpha
    /\ U16BE(cout.bc1.result, 0) > U16BE(cout.bc1.result, 2)

\* C30: for every 4x4 block and every pixel position 0 to 15 in it, a pixel
\* whose alpha is below 8 is decoded as a fully transparent pixel (alpha 0)
\* after compress_block_to_bc1 followed by decode_pixels_dxt1.
C30_LowAlphaDecodesTransparent ==
    (cin.fn = "dxt1" /\ cout.done /\ cout.stage = "decoded") =>
      /\ cout.image.res = "Ok"
      /\ \A i \in 0..15 : cin.image.pixels[i][4] < 8 => cout.image.pixels[i][4] = 0

(***************************************************************************)
(* Claims about the palettized encoders                                    *)
(***************************************************************************)
PaletteWritten == cin.fn \in {"index4", "index8"} /\ cout.done /\ cin.quantized.res = "Ok"

\* C15: whatever number of colours from 1 to the requested count the
\* quantizer returns, the Index4 encoder writes a palette of exactly 16
\* entries (32 bytes) and the Index8 encoder one of exactly 256 entries
\* (512 bytes): the returned colours keep their positions, the missing
\* entries are (0, 0, 0, 0), the palette is never shrunk, and the index
\* stream starts right after the palette.
C15_PaletteSize ==
    PaletteWritten =>
      LET entries == IF cin.fn = "index4" THEN 16 ELSE 256
          n == Len(cin.quantized.palette)
          first == At(cin.quantized.indices, 0)
      IN  /\ cout.res = "Ok"
          /\ Len(cout.palette) = entries
          /\ \A k \in 1..n : cout.palette[k] = cin.quantized.palette[k]
          /\ \A k \in (n + 1)..entries : cout.palette[k] = <<0, 0, 0, 0>>
          /\ \A k \in 1..entries :
                SubSeq(cout.data, 2 * k - 1, 2 * k)
                  = encode_palette_color(cout.palette[k], cin.palette_pixel_format)
          /\ \A j \in (2 * n + 1)..(2 * entries) : cout.data[j] = 0
          /\ Len(cout.data) = 2 * entries
                              + (cin.width * cin.height) \div (IF cin.fn = "index4" THEN 2 ELSE 1)
          /\ cin.fn = "index8" =>
                /\ At(cout.data, 512) = first
                /\ At(cout.data, 512 + 8) = At(cin.quantized.indices, 8)
          /\ cin.fn = "index4" =>
                At(cout.data, 32)
                  = (first % 16) * 16 + (At(cin.quantized.indices, 1) % 16)

C15_Witness ==
    /\ PaletteWritten /\ cin.fn = "index8" /\ cin.palette_pixel_format = "RGB5A3"
    /\ Len(cin.quantized.palette) = 3
    /\ Len(cout.palette) = 256
    /\ cout.palette[3] = cin.quantized.palette[3]
    /\ cout.palette[4] = <<0, 0, 0, 0>>
    /\ Len(cout.data) = 544
    /\ At(cout.data, 512) = 2

(***************************************************************************)
(* Claims about the 4-bit formats                                          *)
(***************************************************************************)
NibbleWidth == IF cin.fn = "intensity4" THEN cin.image.width ELSE cin.width
NibbleHeight == IF cin.fn = "intensity4" THEN cin.image.height ELSE cin.height

\* where the samples start in the payload: after the 16-entry palette of
\* Index4
NibbleStart == IF cin.fn = "intensity4" THEN 0 ELSE 32

\* the 4-bit sample of pixel (x, y): its intensity scaled to 0..15, or its
\* palette index
NibbleSample(x, y) ==
    IF cin.fn = "intensity4"
    THEN encode_pixel_intensity_4(cin.image.pixels[y * NibbleWidth + x])
    ELSE At(cin.quantized.indices, y * NibbleWidth + x) % 16

\* the payload byte of pixel (x, y) in the 8x8 block order: two pixels per
\* byte
NibbleByte(x, y) ==
    NibbleStart
    + (64 * ((y \div 8) * (NibbleWidth \div 8) + (x \div 8)) + 8 * (y % 8) + (x % 8)) \div 2

\* what the decoder makes of the 4-bit sample n
NibbleDecoded(n) ==
    IF cin.fn = "intensity4"
    THEN << (n * 255) \div 15, (n * 255) \div 15, (n * 255) \div 15, 255 >>
    ELSE PaletteEntry(cout.data, cin.palette_pixel_format, n)

\* C29: for the two 4-bit formats (Intensity4 and Index4, 8x8 blocks) and
\* every image whose width and height are multiples of 8: each payload byte
\* receives exactly two samples, they belong to two horizontally adjacent
\* pixels of the same row (even x in the high nibble, odd x in the low
\* nibble), and the decoder reads each pixel's sample from the same byte and
\* the same nibble the encoder wrote it to.
C29_NibblePacking ==
    (cout.done /\ cin.fn \in {"intensity4", "index4"}) =>
      /\ cout.res = "Ok"
      /\ Len(cout.data) = NibbleStart + (NibbleWidth * NibbleHeight) \div 2
      /\ \A d \in NibbleStart..(Len(cout.data) - 1) :
            \E x \in 0..(NibbleWidth - 1), y \in 0..(NibbleHeight - 1) :
               /\ x % 2 = 0
               /\ NibbleByte(x, y) = d /\ NibbleByte(x + 1, y) = d
               /\ At(cout.data, d) = NibbleSample(x, y) * 16 + NibbleSample(x + 1, y)
      /\ cout.stage = "decoded" =>
            /\ cout.image.res = "Ok"
            /\ \A x \in 0..(NibbleWidth - 1), y \in 0..(NibbleHeight - 1) :
                  /\ cout.image.pixels[y * NibbleWidth + x]
                       = NibbleDecoded(IF x % 2 = 0
                                       THEN At(cout.data, NibbleByte(x, y)) \div 16
                                       ELSE At(cout.data, NibbleByte(x, y)) % 16)
                  /\ cout.image.pixels[y * NibbleWidth + x]
                       = NibbleDecoded(NibbleSample(x, y))

C29_Witness ==
    /\ cin.fn = "intensity4" /\ cout.done /\ cout.stage = "decoded"
    /\ cin.image.width = 16 /\ cin.image.height = 8
    /\ cin.image.pixels[8] = <<195, 195, 195, 255>>
    /\ cin.image.pixels[9] = <<42, 42, 42, 255>>
    /\ At(cout.data, 32) = 178
    /\ cout.image.pixels[8] = <<187, 187, 187, 255>>
    /\ cout.image.pixels[9] = <<34, 34, 34, 255>>

(***************************************************************************)
(* Claims about mipmaps                                                    *)
(***************************************************************************)
Mipmapped == cin.fn = "encode" /\ cout.done

\* floor(log2(W)) for a positive W
FloorLog2(w) == Cardinality({n \in 1..20 : 2 ^ n <= w})

\* C11: with mipmaps enabled (Dxt1, Rgb565 or Rgb5a3), encoding an image of
\* width W appends after the base payload exactly one level for each
\* n = 1..floor(log2(W)), level n being the original bitmap resized to side
\* W >> n, in decreasing size order, each level at least 32 bytes; for a
\* 64x64 image these are exactly 6 levels.
C11_MipmapLevels ==
    Mipmapped =>
      /\ cout.res = "Ok"
      /\ Len(cout.levels) = FloorLog2(cin.image.width)
      /\ cin.image.width = 64 => Len(cout.levels) = 6
      /\ \A n \in 1..Len(cout.levels) :
            /\ cout.levels[n].side = cin.image.width \div (2 ^ n)
            /\ Len(cout.levels[n].data) >= 32
            /\ n > 1 => cout.levels[n].side < cout.levels[n - 1].side
      /\ Len(cout.data) = Len(cout.base) + Len(Flatten(cout.levels, 1))
      /\ SubSeq(cout.data, 1, Len(cout.base)) = cout.base
      /\ SubSeq(cout.data, Len(cout.base) + 1, Len(cout.data)) = Flatten(cout.levels, 1)

\* C27: for every image that passes encode-time validation and every
\* mipmap-capable format (Dxt1, Rgb565, Rgb5a3), every pixel coordinate the
\* base-format encoder reads while encoding each generated mip level lies
\* inside that level (x < level width and y < level height), down to the
\* smallest level: mipmap encoding never reads outside a level, so no
\* get_pixel of it panics.
C27_MipmapReadsInBounds ==
    Mipmapped =>
      /\ cout.res # "Panic"
      /\ cin.data_format \in {"Rgb565", "Rgb5a3"} =>
            \A n \in DOMAIN MipmapSides(cin.image.width) :
               \A k \in 1..Len(PixelBlockItems(MipmapSides(cin.image.width)[n],
                                               MipmapSides(cin.image.width)[n], 4, 4)) :
                  ~GetPixelPanics(PixelBlockItems(MipmapSides(cin.image.width)[n],
                                                  MipmapSides(cin.image.width)[n], 4, 4)[k],
                                  [width |-> MipmapSides(cin.image.width)[n],
                                   height |-> MipmapSides(cin.image.width)[n]])

====
